---- MODULE Spec2Model ----
(***************************************************************************)
(* DepGuardian: the safe upgrade resolver (src/src/core/updater.ts) and    *)
(* the version comparator it uses (SemverUtils).  The class defines        *)
(* getAvailableVersions, findFixedVersions, findSafestUpgrade and          *)
(* calculateConfidence twice; a JavaScript class keeps the LAST definition *)
(* of a method, so the later ones (lines 321-431) are the ones modelled.   *)
(***************************************************************************)
EXTENDS Integers, Sequences, FiniteSets, TLC

(* ---- bounds of the model ---- *)
MaxMajor == 2
MaxVulns == 2
MaxNewVulns == 1
MaxDeps == 2
MaxRecords == 2
MaxScanDeps == 3
MaxBatchSize == 2
MaxTypoDeps == 2
MaxPackages == 2
MaxPublished == 2
MaxPublishTimes == 6
MaxMaintainers == 2
MaxVersionLength == 3

(* ---- options: null | value ---- *)
None == <<>>
Some(x) == <<x>>

(* ---- version strings ---- *)
(* A version string is modelled by what the semver package parses out of  *)
(* it: major.minor.patch and whether it carries a prerelease tag           *)
(* ("1.1.0-rc").  Invalid stands for a string that semver neither parses   *)
(* nor coerces ("invalid", "latest").                                      *)
Ver(ma, mi, pa, pre) ==
  [valid |-> TRUE, major |-> ma, minor |-> mi, patch |-> pa, pre |-> pre]

Invalid ==
  [valid |-> FALSE, major |-> 0, minor |-> 0, patch |-> 0, pre |-> FALSE]

Majors == 1..MaxMajor

ReleaseVersions ==
  {Ver(ma, mi, pa, FALSE) : ma \in Majors, mi \in {0, 1}, pa \in {0, 1}}

PrereleaseVersions == {Ver(ma, 1, 0, TRUE) : ma \in Majors}

ValidVersions == ReleaseVersions \cup PrereleaseVersions

Versions == ValidVersions \cup {Invalid}

Severities == {"critical", "high", "medium", "low"}

(* semver.gt on two parsed versions: major, minor, patch, and for equal    *)
(* triples a release is greater than its prerelease.                       *)
semverGt(a, b) ==
  \/ a.major > b.major
  \/ a.major = b.major /\ a.minor > b.minor
  \/ a.major = b.major /\ a.minor = b.minor /\ a.patch > b.patch
  \/ a.major = b.major /\ a.minor = b.minor /\ a.patch = b.patch
       /\ ~a.pre /\ b.pre

(* SemverUtils.greaterThan: semver.gt throws on an unparsable argument and *)
(* the catch turns that into false.                                        *)
greaterThan(version1, version2) ==
  IF ~version1.valid \/ ~version2.valid THEN FALSE
  ELSE semverGt(version1, version2)

(* a variant that takes an unparsable version for a compatible one         *)
isBreakingUpgradeUnlessUnparsable(fromVersion, toVersion) ==
  fromVersion.valid /\ toVersion.valid /\ toVersion.major > fromVersion.major

(* SemverUtils.isBreakingUpgrade: semver.coerce drops the prerelease tag   *)
(* and yields null for an unparsable string.                               *)
isBreakingUpgrade(fromVersion, toVersion) ==
  IF ~fromVersion.valid \/ ~toVersion.valid THEN TRUE
  ELSE toVersion.major > fromVersion.major

(* semver.satisfies(v, '*'): a parsable version without a prerelease tag.  *)
satisfiesAny(version) == version.valid /\ ~version.pre

(* SemverUtils.maxVersion = semver.maxSatisfying(versions, '*'): walks the *)
(* list, keeps the first greatest version among those satisfying '*'.      *)
RECURSIVE maxSatisfyingFrom(_, _)
maxSatisfyingFrom(versions, max) ==
  IF versions = <<>> THEN max
  ELSE LET v == Head(versions)
           take == satisfiesAny(v) /\ (max = None \/ semverGt(v, max[1]))
       IN maxSatisfyingFrom(Tail(versions), IF take THEN Some(v) ELSE max)

maxVersion(versions) == maxSatisfyingFrom(versions, None)

(* SemverUtils.major / SemverUtils.minor: called by calculateConfidence,   *)
(* not defined in the SemverUtils source at hand; taken to be the major    *)
(* and minor component of the version.                                     *)
major(version) == version.major

minor(version) == version.minor

Includes(seq, x) == \E i \in 1..Len(seq) : seq[i] = x

Range(seq) == {seq[i] : i \in 1..Len(seq)}

(* ---- collaborators' responses ---- *)
(* The npm registry document of a package: the fetch rejects               *)
(* ("network-error"), answers non-2xx ("not-ok"), or answers a document    *)
(* whose versions object has the given keys (none when it is missing).     *)
RegistryResponse(status, versions) == [status |-> status, versions |-> versions]

PublishedSets ==
  { {}, ValidVersions, {v \in ValidVersions : v.patch = 0} }

RegistryResponses ==
  {RegistryResponse("network-error", {}), RegistryResponse("not-ok", {})}
    \cup {RegistryResponse("ok", S) : S \in PublishedSets}

(* versions.sort((a, b) => greaterThan(a, b) ? -1 : 1): descending.        *)
RECURSIVE sortDescending(_)
sortDescending(S) ==
  IF S = {} THEN <<>>
  ELSE LET m == CHOOSE x \in S : \A y \in S \ {x} : greaterThan(x, y)
       IN <<m>> \o sortDescending(S \ {m})

(* SafeUpgradeCalculator.getAvailableVersions (second definition): any     *)
(* failure is caught and gives the empty list.                             *)
getAvailableVersions(response) ==
  IF response.status # "ok" THEN <<>>
  ELSE sortDescending(response.versions)

(* The OSV answer for packageName@targetVersion: a failure (network,       *)
(* non-2xx, body without vulns) or the severities of the listed records.   *)
SeqsUpTo(S, n) == UNION {[1..k -> S] : k \in 0..n}

OsvResponse(ok, vulns) == [ok |-> ok, vulns |-> vulns]

OsvResponses ==
  {OsvResponse(FALSE, <<>>)}
    \cup {OsvResponse(TRUE, s) : s \in SeqsUpTo(Severities, MaxNewVulns)}

(* variant: the failure is rethrown instead of being answered by []        *)
queryVulnerabilitiesRethrow(response) ==
  IF ~response.ok THEN None
  ELSE Some([i \in 1..Len(response.vulns) |-> [severity |-> response.vulns[i]]])

(* OSVClient.queryVulnerabilities: the catch returns [] on any failure.    *)
queryVulnerabilities(response) ==
  IF ~response.ok THEN Some(<<>>)
  ELSE Some([i \in 1..Len(response.vulns) |-> [severity |-> response.vulns[i]]])

(* ---- the resolver's pure steps ---- *)
(* findFixedVersions (second definition): a Set filled in iteration order  *)
(* with every patched version the registry lists.                          *)
RECURSIVE addPatched(_, _, _)
addPatched(patched, availableVersions, acc) ==
  IF patched = <<>> THEN acc
  ELSE LET p == Head(patched)
           add == Includes(availableVersions, p) /\ ~Includes(acc, p)
       IN addPatched(Tail(patched), availableVersions,
                     IF add THEN Append(acc, p) ELSE acc)

RECURSIVE findFixedFrom(_, _, _)
findFixedFrom(vulns, availableVersions, acc) ==
  IF vulns = <<>> THEN acc
  ELSE findFixedFrom(Tail(vulns), availableVersions,
                     addPatched(Head(vulns).patchedVersions, availableVersions, acc))

RECURSIVE allPatched(_)
allPatched(vulns) ==
  IF vulns = <<>> THEN <<>>
  ELSE Head(vulns).patchedVersions \o allPatched(Tail(vulns))

(* variant: every declared patched version counts, published or not        *)
findFixedVersionsUnpublished(vulns, availableVersions) ==
  findFixedFrom(vulns, allPatched(vulns), <<>>)

findFixedVersions(vulns, availableVersions) ==
  findFixedFrom(vulns, availableVersions, <<>>)

(* variant: no filter on versions greater than the current one, as in the  *)
(* first definition of findSafestUpgrade                                   *)
findSafestUpgradeUnfiltered(current, fixedVersions, availableVersions) ==
  LET NonBreaking(v) == ~isBreakingUpgrade(current, v)
      nonBreakingUpgrades == SelectSeq(fixedVersions, NonBreaking)
  IN IF fixedVersions = <<>> THEN None
     ELSE IF nonBreakingUpgrades # <<>> THEN maxVersion(nonBreakingUpgrades)
     ELSE maxVersion(fixedVersions)

RECURSIVE minSatisfyingFrom(_, _)
minSatisfyingFrom(versions, min) ==
  IF versions = <<>> THEN min
  ELSE LET v == Head(versions)
           take == satisfiesAny(v) /\ (min = None \/ semverGt(min[1], v))
       IN minSatisfyingFrom(Tail(versions), IF take THEN Some(v) ELSE min)

(* variant: the lowest breaking upgrade, as in the first definition        *)
findSafestUpgradeLowestBreaking(current, fixedVersions, availableVersions) ==
  LET IsUpgrade(v) == greaterThan(v, current)
      validUpgrades == SelectSeq(fixedVersions, IsUpgrade)
      NonBreaking(v) == ~isBreakingUpgrade(current, v)
      nonBreakingUpgrades == SelectSeq(validUpgrades, NonBreaking)
  IN IF validUpgrades = <<>> THEN None
     ELSE IF nonBreakingUpgrades # <<>> THEN maxVersion(nonBreakingUpgrades)
     ELSE minSatisfyingFrom(validUpgrades, None)

(* findSafestUpgrade (second definition).                                  *)
findSafestUpgrade(current, fixedVersions, availableVersions) ==
  LET IsUpgrade(v) == greaterThan(v, current)
      validUpgrades == SelectSeq(fixedVersions, IsUpgrade)
      NonBreaking(v) == ~isBreakingUpgrade(current, v)
      nonBreakingUpgrades == SelectSeq(validUpgrades, NonBreaking)
  IN IF validUpgrades = <<>> THEN None
     ELSE IF nonBreakingUpgrades # <<>> THEN maxVersion(nonBreakingUpgrades)
     ELSE maxVersion(validUpgrades)

(* variant: the first definition of calculateConfidence                    *)
calculateConfidenceDirect(current, target, fixedVersions) ==
  IF Includes(fixedVersions, target) THEN "high"
  ELSE IF major(current) = major(target) THEN "medium"
  ELSE "low"

(* variant: a minor-version step earns the patch-level bonus               *)
calculateConfidenceFlat(current, target, fixedVersions) ==
  LET direct == IF Includes(fixedVersions, target) THEN 2 ELSE 0
      distance == IF major(current) = major(target) THEN 6 ELSE -1
      raw == 2 + direct + distance
      confidence == IF raw < 0 THEN 0 ELSE IF raw > 10 THEN 10 ELSE raw
  IN IF confidence >= 8 THEN "high"
     ELSE IF confidence >= 5 THEN "medium"
     ELSE "low"

(* calculateConfidence (second definition), in tenths: 0.2 base, +0.2 for  *)
(* a patched target, +0.6 / +0.3 / -0.1 by version distance, clamped to    *)
(* [0, 1]; >= 0.8 high, >= 0.5 medium.                                     *)
calculateConfidence(current, target, fixedVersions) ==
  LET direct == IF Includes(fixedVersions, target) THEN 2 ELSE 0
      distance == IF major(current) = major(target)
                  THEN (IF minor(current) = minor(target) THEN 6 ELSE 3)
                  ELSE -1
      raw == 2 + direct + distance
      confidence == IF raw < 0 THEN 0 ELSE IF raw > 10 THEN 10 ELSE raw
  IN IF confidence >= 8 THEN "high"
     ELSE IF confidence >= 5 THEN "medium"
     ELSE "low"

currentWeight(severity) ==
  CASE severity = "critical" -> 10
    [] severity = "high" -> 5
    [] severity = "medium" -> 2
    [] severity = "low" -> 1
    [] OTHER -> 0

newWeight(severity) ==
  CASE severity = "critical" -> 8
    [] severity = "high" -> 4
    [] severity = "medium" -> 2
    [] severity = "low" -> 1
    [] OTHER -> 0

RECURSIVE sumWeights(_, _)
sumWeights(vulns, i) ==
  IF i > Len(vulns) THEN 0 ELSE currentWeight(vulns[i].severity) + sumWeights(vulns, i + 1)

RECURSIVE sumNewWeights(_, _)
sumNewWeights(vulns, i) ==
  IF i > Len(vulns) THEN 0 ELSE newWeight(vulns[i].severity) + sumNewWeights(vulns, i + 1)

(* calculateRiskScore.                                                     *)
calculateRiskScore(currentVulnerabilities, newVulnerabilities, current, target) ==
  LET riskScore == sumWeights(currentVulnerabilities, 1)
                     - Len(currentVulnerabilities) * 3
                     + sumNewWeights(newVulnerabilities, 1)
                     + (IF isBreakingUpgrade(current, target) THEN 3 ELSE 0)
  IN IF riskScore > 0 THEN riskScore ELSE 0

(* The object literal of calculateUpgradePath, lines 52-61 (changelogUrl,  *)
(* a link that getChangelogUrl derives without ever throwing, is left      *)
(* out); a rejected await inside the try gives null.                       *)
buildUpgradePath(name, current, target, vulns, fixedVersions, queried) ==
  IF queried = None THEN None
  ELSE Some([packageName |-> name,
             currentVersion |-> current,
             targetVersion |-> target,
             isBreaking |-> isBreakingUpgrade(current, target),
             fixedVulnerabilities |-> [i \in 1..Len(vulns) |-> vulns[i].id],
             confidence |-> calculateConfidence(current, target, fixedVersions),
             riskScore |-> calculateRiskScore(vulns, queried[1], current, target)])

(* calculateUpgradePath as one function of its arguments and of what the   *)
(* registry and OSV answer.                                                *)
calculateUpgradePath(name, current, vulns, registryResponse, osvResponse) ==
  LET availableVersions == getAvailableVersions(registryResponse)
      fixedVersions == findFixedVersions(vulns, availableVersions)
      target == findSafestUpgrade(current, fixedVersions, availableVersions)
  IN IF availableVersions = <<>> THEN None
     ELSE IF fixedVersions = <<>> THEN None
     ELSE IF target = None THEN None
     ELSE buildUpgradePath(name, current, target[1], vulns, fixedVersions,
                           queryVulnerabilities(osvResponse))

(* ---- inputs ---- *)
PackageNames == {"lodash", "express"}

Vulnerability(id, name, severity, patched) ==
  [id |-> id, packageName |-> name, severity |-> severity, patchedVersions |-> patched]

(* Vulnerability lists of length minLen..MaxVulns; ids number the records. *)
VulnerabilityLists(names, severities, patchedOptions, minLen) ==
  UNION { { [i \in 1..k |-> Vulnerability(i, f[i][1], f[i][2], f[i][3])] :
              f \in [1..k -> names \X severities \X patchedOptions] } :
          k \in minLen..MaxVulns }

(* Version-rich inputs of one calculateUpgradePath call ...                *)
SelectionInputs ==
  [name : {"lodash"},
   current : {v \in ValidVersions : v.major = 1} \cup {Invalid},
   vulns : VulnerabilityLists({"lodash"}, {"high"}, SeqsUpTo(Versions, 1), 0)]

(* ... and severity-rich ones.                                             *)
RiskInputs ==
  [name : {"lodash"},
   current : {Ver(1, 0, 0, FALSE)},
   vulns : VulnerabilityLists({"lodash"}, Severities,
             {<<>>, <<Ver(1, 0, 1, FALSE)>>, <<Ver(2, 0, 0, FALSE)>>}, 1)]

CallInputs == SelectionInputs \cup RiskInputs

(* ---- state ---- *)
VARIABLES
  pc,                 \* position in calculateUpgradePath / calculateAllUpgradePaths
  packageName,        \* arguments of the running calculateUpgradePath call
  currentVersion,
  vulnerabilities,
  registry,           \* what the registry answered to getAvailableVersions
  availableVersions,
  fixedVersions,
  targetVersion,      \* None until findSafestUpgrade has chosen
  osv,                \* what OSV answered to the query for the target
  newVulnerabilities, \* None until OSV was queried for the target
  result,             \* what calculateUpgradePath returned
  dependencies,       \* arguments of calculateAllUpgradePaths
  allVulnerabilities,
  pending,            \* entries of vulnsByPackage still to visit
  calls,              \* the calculateUpgradePath calls made by the loop
  upgradePaths        \* the list calculateAllUpgradePaths builds

(* state of a findSafeVersion call *)
VARIABLES
  constraint,         \* the range argument
  critical,           \* the versions OSV holds a critical record for
  sortedVersions,     \* satisfying versions, highest first
  cursor,             \* index of the for-of loop over sortedVersions
  queries,            \* the OSV queries made so far, with what they answered
  safeVersion         \* what findSafeVersion returned

(* state of a mergeVulnerabilities call *)
VARIABLES
  osvVulns,           \* the two arguments
  snykVulns,
  merged,             \* the list returned, None before the call
  remerged            \* the list returned when merged is merged with itself

(* state of a scan (scanProject from the dependency list on) *)
VARIABLES
  allDependencies,    \* the dependency list
  snykEnabled,        \* whether a Snyk client was configured
  osvBatchSize,       \* batchSize of scanDependenciesWithOSV / ...WithSnyk
  snykBatchSize,
  osvBatches,         \* what createBatches returned, per source
  snykBatches,
  osvSettled,         \* per batch and item: None while the query is in flight,
  snykSettled,        \*   then how its promise settled
  osvAnswers,         \* per dependency index: what the source answered
  snykAnswers,
  scanned,            \* the merged list of the scan, None before it ends
  completed           \* the queries settled so far, in the order they settled

(* state of a detectTyposquatting call *)
VARIABLES
  typoDependencies,   \* the names of the dependency entries, in order
  typoCursor,         \* entries the for-of loop has visited
  threats             \* the threats pushed so far

(* state of a detector check that reads the registry *)
VARIABLES
  fromVersion,        \* the two arguments of isBreakingUpgrade, as written
  toVersion,
  breaking            \* what the call returned, None before it returns

VARIABLES
  packages,           \* per dependency entry: its name and what the registry
                      \*   answers to the fetches made for it
  depCursor,          \* entries the for-of loop over dependencies has visited
  lastIndex           \* lastIndex of each of the call's suspiciousPatterns

callVars == <<packageName, currentVersion, vulnerabilities>>
stepVars == <<registry, availableVersions, fixedVersions, targetVersion,
              osv, newVulnerabilities, result>>
allVars == <<dependencies, allVulnerabilities, pending, calls, upgradePaths>>
safeVars == <<constraint, critical, sortedVersions, cursor, queries, safeVersion>>
mergeVars == <<osvVulns, snykVulns, merged, remerged>>
scanVars == <<allDependencies, snykEnabled, osvBatchSize, snykBatchSize, osvBatches,
              snykBatches, osvSettled, snykSettled, osvAnswers, snykAnswers, scanned,
              completed>>
regVars == <<packages, depCursor, lastIndex>>
detVars == <<typoDependencies, typoCursor, threats, regVars>>
semverVars == <<fromVersion, toVersion, breaking>>
restVars == <<mergeVars, scanVars, detVars, semverVars>>
extVars == <<safeVars, restVars>>
vars == <<pc, callVars, stepVars, allVars, extVars>>

NoResponse == RegistryResponse("none", {})

StepInit ==
  /\ registry = NoResponse
  /\ availableVersions = <<>>
  /\ fixedVersions = <<>>
  /\ targetVersion = None
  /\ osv = OsvResponse(FALSE, <<>>)
  /\ newVulnerabilities = None
  /\ result = None

SafeInit ==
  /\ sortedVersions = <<>>
  /\ cursor = 0
  /\ queries = <<>>
  /\ safeVersion = None

MergeIdle ==
  /\ osvVulns = <<>>
  /\ snykVulns = <<>>
  /\ merged = None
  /\ remerged = None

(* the resolver at rest, while another component runs                      *)
UpdaterIdle ==
  /\ packageName = ""
  /\ currentVersion = Invalid
  /\ vulnerabilities = <<>>
  /\ StepInit
  /\ dependencies = <<>>
  /\ allVulnerabilities = <<>>
  /\ pending = <<>>
  /\ calls = <<>>
  /\ upgradePaths = <<>>
  /\ constraint = ""
  /\ critical = {}
  /\ SafeInit

ScanIdle ==
  /\ allDependencies = <<>>
  /\ snykEnabled = FALSE
  /\ osvBatchSize = 1
  /\ snykBatchSize = 1
  /\ osvBatches = <<>>
  /\ snykBatches = <<>>
  /\ osvSettled = <<>>
  /\ snykSettled = <<>>
  /\ osvAnswers = <<>>
  /\ snykAnswers = <<>>
  /\ scanned = None
  /\ completed = <<>>

RegistryIdle ==
  /\ packages = <<>>
  /\ depCursor = 0
  /\ lastIndex = <<>>

DetIdle ==
  /\ typoDependencies = <<>>
  /\ typoCursor = 0
  /\ threats = <<>>
  /\ RegistryIdle

(* the scanner and the detector at rest                                    *)
SemverIdle ==
  /\ fromVersion = <<>>
  /\ toVersion = <<>>
  /\ breaking = None

RestIdle == MergeIdle /\ ScanIdle /\ DetIdle /\ SemverIdle

(* the parts of the state a calculateUpgradePath call does not touch       *)
ExtInit ==
  /\ constraint = ""
  /\ critical = {}
  /\ SafeInit
  /\ RestIdle

(* One call calculateUpgradePath(packageName, currentVersion, vulns).      *)
Init ==
  /\ pc = "call"
  /\ \E in \in CallInputs :
       /\ packageName = in.name
       /\ currentVersion = in.current
       /\ vulnerabilities = in.vulns
  /\ StepInit
  /\ dependencies = <<>>
  /\ allVulnerabilities = <<>>
  /\ pending = <<>>
  /\ calls = <<>>
  /\ upgradePaths = <<>>
  /\ ExtInit

(* await this.getAvailableVersions(packageName)                            *)
FetchVersions ==
  /\ pc = "call"
  /\ \E response \in RegistryResponses :
       /\ registry' = response
       /\ availableVersions' = getAvailableVersions(response)
  /\ pc' = "fetched"
  /\ UNCHANGED <<callVars, fixedVersions, targetVersion, osv, newVulnerabilities,
                 result, allVars, extVars>>

(* lines 28-47: the three early returns and the choice of the target       *)
SelectTarget ==
  /\ pc = "fetched"
  /\ LET fixed == findFixedVersions(vulnerabilities, availableVersions)
         target == findSafestUpgrade(currentVersion, fixed, availableVersions)
     IN IF availableVersions = <<>>
        THEN /\ pc' = "returned"
             /\ UNCHANGED <<fixedVersions, targetVersion>>
        ELSE IF fixed = <<>>
        THEN /\ pc' = "returned"
             /\ fixedVersions' = fixed
             /\ UNCHANGED targetVersion
        ELSE /\ fixedVersions' = fixed
             /\ targetVersion' = target
             /\ pc' = IF target = None THEN "returned" ELSE "selected"
  /\ result' = None
  /\ UNCHANGED <<callVars, registry, availableVersions, osv, newVulnerabilities, allVars,
                 extVars>>

(* await this.osvClient.queryVulnerabilities(packageName, targetVersion)   *)
QueryTarget ==
  /\ pc = "selected"
  /\ \E response \in OsvResponses :
       /\ osv' = response
       /\ newVulnerabilities' = queryVulnerabilities(response)
  /\ pc' = "queried"
  /\ UNCHANGED <<callVars, registry, availableVersions, fixedVersions, targetVersion,
                 result, allVars, extVars>>

(* lines 52-69: the path is built and returned                             *)
BuildPath ==
  /\ pc = "queried"
  /\ result' = buildUpgradePath(packageName, currentVersion, targetVersion[1],
                                vulnerabilities, fixedVersions, newVulnerabilities)
  /\ pc' = "returned"
  /\ UNCHANGED <<callVars, registry, availableVersions, fixedVersions, targetVersion,
                 osv, newVulnerabilities, allVars,
                 extVars>>

Next == FetchVersions \/ SelectTarget \/ QueryTarget \/ BuildPath

Spec == Init /\ [][Next]_vars

(* ---- calculateAllUpgradePaths ---- *)
Dependency(name, version) == [name |-> name, version |-> version]

DependencyLists ==
  SeqsUpTo({Dependency(n, v) : n \in PackageNames,
                               v \in {Ver(1, 0, 0, FALSE), Ver(1, 0, 1, FALSE)}},
           MaxDeps)

AllVulnerabilityLists ==
  VulnerabilityLists(PackageNames, {"high"}, {<<>>, <<Ver(1, 0, 1, FALSE)>>}, 0)

(* what OSV answers inside the loop: a failure, no record, one record      *)
LoopOsvResponses ==
  {OsvResponse(FALSE, <<>>), OsvResponse(TRUE, <<>>), OsvResponse(TRUE, <<"high">>)}

HasEntry(entries, name) == \E i \in 1..Len(entries) : entries[i].name = name

(* variant: one entry per vulnerability, no grouping                       *)
vulnsByPackageUngrouped(vulns) ==
  [i \in 1..Len(vulns) |-> [name |-> vulns[i].packageName, vulns |-> <<vulns[i]>>]]

RECURSIVE groupFrom(_, _)
groupFrom(vulns, acc) ==
  IF vulns = <<>> THEN acc
  ELSE LET v == Head(vulns)
           grown == IF HasEntry(acc, v.packageName)
                    THEN [i \in 1..Len(acc) |->
                            IF acc[i].name = v.packageName
                            THEN [acc[i] EXCEPT !.vulns = Append(@, v)]
                            ELSE acc[i]]
                    ELSE Append(acc, [name |-> v.packageName, vulns |-> <<v>>])
       IN groupFrom(Tail(vulns), grown)

(* Object.entries of the reduce of lines 292-298: one entry per package    *)
(* name, in order of first appearance, with that package's vulnerabilities *)
vulnsByPackage(vulns) == groupFrom(vulns, <<>>)

(* dependencies.find(dep => dep.name === packageName)                      *)
findDependency(deps, name) ==
  IF \E i \in 1..Len(deps) : deps[i].name = name
  THEN Some(deps[CHOOSE i \in 1..Len(deps) :
                   /\ deps[i].name = name
                   /\ \A j \in 1..(i - 1) : deps[j].name # name])
  ELSE None

(* variant: a package without a path is entered with a placeholder         *)
pushPathOrGap(paths, name, current, path) ==
  IF path # None THEN Append(paths, path[1])
  ELSE Append(paths, [packageName |-> name,
                      currentVersion |-> current,
                      targetVersion |-> current,
                      isBreaking |-> FALSE,
                      fixedVulnerabilities |-> <<>>,
                      confidence |-> "low",
                      riskScore |-> 0])

(* lines 311-313: if (upgradePath) upgradePaths.push(upgradePath)          *)
pushPath(paths, name, current, path) ==
  IF path # None THEN Append(paths, path[1]) ELSE paths

(* One call calculateAllUpgradePaths(dependencies, vulnerabilities), at    *)
(* the head of its loop.                                                   *)
InitAll ==
  /\ pc = "loop"
  /\ dependencies \in DependencyLists
  /\ allVulnerabilities \in AllVulnerabilityLists
  /\ pending = vulnsByPackage(allVulnerabilities)
  /\ calls = <<>>
  /\ upgradePaths = <<>>
  /\ packageName = ""
  /\ currentVersion = Invalid
  /\ vulnerabilities = <<>>
  /\ StepInit
  /\ ExtInit

(* a loop turn for a package the dependency list names: its                *)
(* calculateUpgradePath call and the push of the path                      *)
ResolveEntry ==
  /\ pc = "loop"
  /\ pending # <<>>
  /\ LET entry == Head(pending)
         dependency == findDependency(dependencies, entry.name)
     IN /\ dependency # None
        /\ \E registryResponse \in RegistryResponses, osvResponse \in LoopOsvResponses :
             LET path == calculateUpgradePath(entry.name, dependency[1].version,
                                              entry.vulns, registryResponse, osvResponse)
             IN /\ calls' = Append(calls, [packageName |-> entry.name,
                                          currentVersion |-> dependency[1].version,
                                          vulnerabilities |-> entry.vulns,
                                          result |-> path])
                /\ upgradePaths' = pushPath(upgradePaths, entry.name,
                                            dependency[1].version, path)
  /\ pending' = Tail(pending)
  /\ UNCHANGED <<pc, callVars, stepVars, dependencies, allVulnerabilities, extVars>>

(* a loop turn for a package the dependency list does not name             *)
SkipEntry ==
  /\ pc = "loop"
  /\ pending # <<>>
  /\ findDependency(dependencies, Head(pending).name) = None
  /\ pending' = Tail(pending)
  /\ UNCHANGED <<pc, callVars, stepVars, dependencies, allVulnerabilities, calls,
                 upgradePaths, extVars>>

(* return upgradePaths                                                     *)
ReturnPaths ==
  /\ pc = "loop"
  /\ pending = <<>>
  /\ pc' = "done"
  /\ UNCHANGED <<callVars, stepVars, allVars, extVars>>

NextAll == ResolveEntry \/ SkipEntry \/ ReturnPaths

SpecAll == InitAll /\ [][NextAll]_vars

(* ---- findSafeVersion ---- *)
(* A range string is modelled by what semver.satisfies makes of it: "*",   *)
(* a caret range "^M.0.0", a tilde range "~M.m.0", or a string that is no  *)
(* range at all.                                                           *)
Constraint(kind, ma, mi) == [kind |-> kind, major |-> ma, minor |-> mi]

Constraints ==
  {Constraint("any", 0, 0), Constraint("invalid", 0, 0)}
    \cup {Constraint("caret", ma, 0) : ma \in Majors}
    \cup {Constraint("tilde", 1, mi) : mi \in {0, 1}}

(* semver.satisfies(version, range): false for an unparsable version or    *)
(* range, and for a prerelease version when the range names no prerelease. *)
satisfies(version, range) ==
  /\ version.valid
  /\ ~version.pre
  /\ CASE range.kind = "any" -> TRUE
       [] range.kind = "caret" -> version.major = range.major
       [] range.kind = "tilde" -> version.major = range.major /\ version.minor = range.minor
       [] OTHER -> FALSE

(* SemverUtils.versionsInRange: the filter keeps the order of the list.    *)
versionsInRange(allVersions, range) ==
  LET InRange(v) == satisfies(v, range)
  IN SelectSeq(allVersions, InRange)

(* The sets of versions OSV may hold a critical record for: any set of     *)
(* 1.x releases, with or without all releases of the later majors.         *)
CriticalSets ==
  {S \cup T : S \in SUBSET {v \in ReleaseVersions : v.major = 1},
              T \in {{}, {v \in ReleaseVersions : v.major > 1}}}

(* What OSV answers to a query for one version: a failure, or the records  *)
(* it holds (a critical one for the versions of criticalVersions, a high   *)
(* one for the other x.y.1 releases, none for the rest).                   *)
osvAnswer(version, criticalVersions, ok) ==
  IF ~ok THEN OsvResponse(FALSE, <<>>)
  ELSE IF version \in criticalVersions THEN OsvResponse(TRUE, <<"medium", "critical">>)
  ELSE IF version.patch = 1 THEN OsvResponse(TRUE, <<"high">>)
  ELSE OsvResponse(TRUE, <<>>)

(* variant: a high record disqualifies a version too                       *)
hasHighOrCritical(vulns) ==
  \E i \in 1..Len(vulns) : vulns[i].severity \in {"high", "critical"}

(* vulnerabilities.some(v => v.severity === 'critical')                    *)
hasCritical(vulns) == \E i \in 1..Len(vulns) : vulns[i].severity = "critical"

Query(version, response) == [version |-> version, response |-> response]

(* One call findSafeVersion(packageName, constraint).                      *)
InitSafe ==
  /\ pc = "safe-call"
  /\ packageName = "lodash"
  /\ constraint \in Constraints
  /\ critical \in CriticalSets
  /\ currentVersion = Invalid
  /\ vulnerabilities = <<>>
  /\ StepInit
  /\ SafeInit
  /\ dependencies = <<>>
  /\ allVulnerabilities = <<>>
  /\ pending = <<>>
  /\ calls = <<>>
  /\ upgradePaths = <<>>
  /\ RestIdle

safeFrame ==
  <<packageName, currentVersion, vulnerabilities, fixedVersions, targetVersion, osv,
    newVulnerabilities, result, allVars, constraint, critical, restVars>>

(* lines 77-90: the versions are fetched, filtered and sorted; an empty    *)
(* list returns null                                                       *)
FilterVersions ==
  /\ pc = "safe-call"
  /\ \E response \in RegistryResponses :
       LET satisfyingVersions == versionsInRange(getAvailableVersions(response), constraint)
       IN /\ registry' = response
          /\ availableVersions' = getAvailableVersions(response)
          /\ sortedVersions' = sortDescending(Range(satisfyingVersions))
          /\ pc' = IF satisfyingVersions = <<>> THEN "safe-returned" ELSE "safe-latest"
  /\ safeVersion' = None
  /\ UNCHANGED <<safeFrame, cursor, queries>>

(* lines 93-96 and 108: the latest version is queried and returned unless  *)
(* a critical record comes back                                            *)
QueryLatest ==
  /\ pc = "safe-latest"
  /\ \E ok \in BOOLEAN :
       LET latestVersion == sortedVersions[1]
           response == osvAnswer(latestVersion, critical, ok)
       IN /\ queries' = Append(queries, Query(latestVersion, response))
          /\ IF hasCritical(queryVulnerabilities(response)[1])
             THEN /\ pc' = "safe-loop"
                  /\ cursor' = 1
                  /\ UNCHANGED safeVersion
             ELSE /\ pc' = "safe-returned"
                  /\ safeVersion' = Some(latestVersion)
                  /\ UNCHANGED cursor
  /\ UNCHANGED <<safeFrame, registry, availableVersions, sortedVersions>>

(* lines 97-102: one turn of the loop, which starts over at the latest     *)
(* version                                                                 *)
QueryNext ==
  /\ pc = "safe-loop"
  /\ cursor <= Len(sortedVersions)
  /\ \E ok \in BOOLEAN :
       LET version == sortedVersions[cursor]
           response == osvAnswer(version, critical, ok)
       IN /\ queries' = Append(queries, Query(version, response))
          /\ IF hasCritical(queryVulnerabilities(response)[1])
             THEN /\ cursor' = cursor + 1
                  /\ UNCHANGED <<pc, safeVersion>>
             ELSE /\ pc' = "safe-returned"
                  /\ safeVersion' = Some(version)
                  /\ UNCHANGED cursor
  /\ UNCHANGED <<safeFrame, registry, availableVersions, sortedVersions>>

(* line 104: no version without a critical record                          *)
NoSafeVersion ==
  /\ pc = "safe-loop"
  /\ cursor > Len(sortedVersions)
  /\ pc' = "safe-returned"
  /\ safeVersion' = None
  /\ UNCHANGED <<safeFrame, registry, availableVersions, sortedVersions, cursor, queries>>

NextSafe == FilterVersions \/ QueryLatest \/ QueryNext \/ NoSafeVersion

SpecSafe == InitSafe /\ [][NextSafe]_vars

(* ---- Scanner.mergeVulnerabilities ---- *)
(* A vulnerability record as the scanner merges it.  cveId and cvssScore   *)
(* are optional: None stands for undefined.  references holds urls.        *)
ScanRecord(id, name, severity, source, cveId, cvssScore, references) ==
  [id |-> id, packageName |-> name, severity |-> severity, source |-> source,
   cveId |-> cveId, cvssScore |-> cvssScore, references |-> references]

(* a variant with the looser key: the cveId where a record has one         *)
keyOfCve(vuln) ==
  vuln.packageName \o ":" \o (IF vuln.cveId # None THEN vuln.cveId[1] ELSE vuln.id)

(* `${vuln.packageName}:${vuln.id}`                                        *)
keyOf(vuln) == vuln.packageName \o ":" \o vuln.id

(* position of the key in the Map's insertion order, 0 when absent         *)
indexOfKey(map, key) ==
  IF \E i \in 1..Len(map) : keyOf(map[i]) = key
  THEN CHOOSE i \in 1..Len(map) : keyOf(map[i]) = key
  ELSE 0

(* variant: a list instead of a Map, every set appends                     *)
mapSetAppend(map, key, vuln) == Append(map, vuln)

(* Map.set: a new key goes last, a known key keeps its position            *)
mapSet(map, key, vuln) ==
  IF indexOfKey(map, key) = 0 THEN Append(map, vuln)
  ELSE [map EXCEPT ![indexOfKey(map, key)] = vuln]

severityOrder(severity) ==
  CASE severity = "critical" -> 4
    [] severity = "high" -> 3
    [] severity = "medium" -> 2
    [] severity = "low" -> 1

(* variant: the later record's severity is taken                           *)
getLaterSeverity(severity1, severity2) == severity2

getHigherSeverity(severity1, severity2) ==
  IF severityOrder(severity1) >= severityOrder(severity2) THEN severity1 ELSE severity2

(* a || b on an optional string / an optional number                       *)
orString(a, b) == IF a # None /\ a[1] # "" THEN a ELSE b

orNumber(a, b) == IF a # None /\ a[1] # 0 THEN a ELSE b

(* lines 345-362: the record that replaces existing on a collision         *)
mergeRecord(existing, snykVuln) ==
  [existing EXCEPT
     !.severity = getHigherSeverity(existing.severity, snykVuln.severity),
     !.references = existing.references \o snykVuln.references,
     !.source = IF existing.source = "osv" THEN "osv" ELSE "snyk",
     !.cvssScore = orNumber(existing.cvssScore, snykVuln.cvssScore),
     !.cveId = orString(existing.cveId, snykVuln.cveId)]

(* lines 335-338: every OSV record is set under its key                    *)
RECURSIVE addOsv(_, _)
addOsv(vulns, map) ==
  IF vulns = <<>> THEN map
  ELSE addOsv(Tail(vulns), mapSet(map, keyOf(Head(vulns)), Head(vulns)))

(* variant: a Snyk record is appended whether or not its key is known      *)
RECURSIVE addSnykUnkeyed(_, _)
addSnykUnkeyed(vulns, map) ==
  IF vulns = <<>> THEN map
  ELSE addSnykUnkeyed(Tail(vulns), Append(map, Head(vulns)))

(* lines 341-365: every Snyk record is merged into, or set under, its key  *)
RECURSIVE addSnyk(_, _)
addSnyk(vulns, map) ==
  IF vulns = <<>> THEN map
  ELSE LET snykVuln == Head(vulns)
           key == keyOf(snykVuln)
           idx == indexOfKey(map, key)
       IN addSnyk(Tail(vulns),
                  IF idx # 0 THEN mapSet(map, key, mergeRecord(map[idx], snykVuln))
                  ELSE mapSet(map, key, snykVuln))

(* Array.from(vulnerabilityMap.values())                                   *)
mergeVulnerabilities(osvList, snykList) == addSnyk(snykList, addOsv(osvList, <<>>))

VulnIds == {"GHSA-1", "GHSA-2"}

referencesOf(source) == IF source = "osv" THEN <<"https://osv.dev">> ELSE <<"https://snyk.io">>

(* Records of one source: rich in severities, ...                          *)
SeverityRecords(source) ==
  {ScanRecord(id, "lodash", severity, source, None, None, referencesOf(source)) :
     id \in VulnIds, severity \in Severities}

(* ... rich in optional scalars (none, an empty-like value, a value), ...  *)
ScalarRecords(source) ==
  {ScanRecord(id, "lodash", "high", source, scalars[1], scalars[2], referencesOf(source)) :
     id \in VulnIds,
     scalars \in {<<None, None>>, <<Some("CVE-1"), Some(0)>>, <<Some("CVE-2"), Some(7)>>}}

(* ... and rich in keys.                                                   *)
KeyRecords(source) ==
  {ScanRecord(id, name, "medium", source, None, None, referencesOf(source)) :
     id \in VulnIds, name \in PackageNames}

RecordLists(records) == SeqsUpTo(records, MaxRecords)

(* The argument pairs of mergeVulnerabilities: an OSV list and a Snyk list *)
(* as scanProject hands them over (each of at most MaxRecords records,     *)
(* at most MaxRecords + 2 together), or one list passed twice.             *)
RecordKinds == {"severity", "scalar", "key"}

RecordsOf(kind, source) ==
  CASE kind = "severity" -> SeverityRecords(source)
    [] kind = "scalar" -> ScalarRecords(source)
    [] kind = "key" -> KeyRecords(source)

MergeInputs(osvList, snykList) ==
  \/ \E kind \in RecordKinds :
       /\ osvList \in RecordLists(RecordsOf(kind, "osv"))
       /\ snykList \in SeqsUpTo(RecordsOf(kind, "snyk"),
                                 IF Len(osvList) <= 2 THEN MaxRecords
                                 ELSE MaxRecords + 2 - Len(osvList))
  \/ /\ osvList \in RecordLists(SeverityRecords("osv")) \cup RecordLists(KeyRecords("snyk"))
     /\ snykList = osvList

InitMerge ==
  /\ pc = "merge-call"
  /\ MergeInputs(osvVulns, snykVulns)
  /\ merged = None
  /\ remerged = None
  /\ UpdaterIdle
  /\ SemverIdle
  /\ ScanIdle
  /\ DetIdle

mergeFrame == <<callVars, stepVars, allVars, safeVars, scanVars, detVars, semverVars>>

(* mergeVulnerabilities(osvVulns, snykVulns)                               *)
MergeLists ==
  /\ pc = "merge-call"
  /\ merged' = Some(mergeVulnerabilities(osvVulns, snykVulns))
  /\ pc' = "merged"
  /\ UNCHANGED <<mergeFrame, osvVulns, snykVulns, remerged>>

(* mergeVulnerabilities applied to its own result, passed twice            *)
MergeAgain ==
  /\ pc = "merged"
  /\ remerged' = Some(mergeVulnerabilities(merged[1], merged[1]))
  /\ pc' = "remerged"
  /\ UNCHANGED <<mergeFrame, osvVulns, snykVulns, merged>>

NextMerge == MergeLists \/ MergeAgain

SpecMerge == InitMerge /\ [][NextMerge]_vars

(* ---- Scanner: the batched queries of a scan ---- *)
Min(a, b) == IF a <= b THEN a ELSE b

(* variant: a last batch shorter than batchSize is not sent                *)
RECURSIVE createBatchesFullOnly(_, _)
createBatchesFullOnly(items, batchSize) ==
  IF Len(items) < batchSize THEN <<>>
  ELSE <<SubSeq(items, 1, batchSize)>>
         \o createBatchesFullOnly(SubSeq(items, batchSize + 1, Len(items)), batchSize)

(* for (let i = 0; i < items.length; i += batchSize)                       *)
(*   batches.push(items.slice(i, i + batchSize))                           *)
RECURSIVE createBatchesFrom(_, _, _)
createBatchesFrom(items, batchSize, i) ==
  IF i >= Len(items) THEN <<>>
  ELSE <<SubSeq(items, i + 1, Min(i + batchSize, Len(items)))>>
         \o createBatchesFrom(items, batchSize, i + batchSize)

createBatches(items, batchSize) == createBatchesFrom(items, batchSize, 0)

(* Array.prototype.flat on a list of lists                                 *)
RECURSIVE flat(_)
flat(lists) == IF lists = <<>> THEN <<>> ELSE Head(lists) \o flat(Tail(lists))

(* The records a source reports for a dependency when its query succeeds.  *)
reportedBy(source, dep) ==
  <<ScanRecord("GHSA-1", dep.name, IF source = "osv" THEN "high" ELSE "critical", source,
               Some("CVE-1"), IF source = "osv" THEN None ELSE Some(7),
               referencesOf(source))>>

(* variant: a failed query rejects its promise                             *)
itemOutcomeRejecting(source, dep, ok) ==
  IF ok THEN Some(reportedBy(source, dep)) ELSE None

(* How the promise of one query settles: the client answers [] on any      *)
(* failure, and the .catch of the batch answers [] for a rejection, so it  *)
(* is always fulfilled.                                                    *)
itemOutcome(source, dep, ok) ==
  Some(IF ok THEN reportedBy(source, dep) ELSE <<>>)

Pending == [done |-> FALSE, outcome |-> None]

Settled(outcome) == [done |-> TRUE, outcome |-> outcome]

AllSettled(settled) ==
  \A b \in 1..Len(settled) : \A i \in 1..Len(settled[b]) : settled[b][i].done

(* a variant that collects the answers as they arrive                      *)
sourceVulnerabilitiesAsCompleted(settled) ==
  flat([n \in 1..Len(completed) |->
          IF settled = (IF completed[n].source = "osv" THEN osvSettled ELSE snykSettled)
          THEN completed[n].vulnerabilities ELSE <<>>])

(* What scanDependenciesWithOSV / ...WithSnyk returns once every query has *)
(* settled: Promise.all keeps the positions; one rejection would reject it *)
(* and the catch of the method would return [].                            *)
sourceVulnerabilities(settled) ==
  IF \E b \in 1..Len(settled) : \E i \in 1..Len(settled[b]) : settled[b][i].outcome = None
  THEN <<>>
  ELSE flat([b \in 1..Len(settled) |->
               flat([i \in 1..Len(settled[b]) |-> settled[b][i].outcome[1]])])

(* position in the dependency list of item i of batch b                    *)
RECURSIVE offsetOf(_, _)
offsetOf(batches, b) == IF b <= 1 THEN 0 ELSE offsetOf(batches, b - 1) + Len(batches[b - 1])

(* the dependency lists scanned: lodash and express in turn, the later     *)
(* entries at another version                                              *)
scanDependency(i) ==
  Dependency(IF i % 2 = 1 THEN "lodash" ELSE "express",
             IF i <= 2 THEN Ver(1, 0, 0, FALSE) ELSE Ver(1, 0, 1, FALSE))

ScanDependencyLists == {[i \in 1..k |-> scanDependency(i)] : k \in 0..MaxScanDeps}

BatchSizes == 1..MaxBatchSize

(* scanProject, once the dependency list is parsed.                        *)
InitScan ==
  /\ pc = "scan-call"
  /\ allDependencies \in ScanDependencyLists
  /\ snykEnabled \in BOOLEAN
  /\ osvBatchSize \in BatchSizes
  /\ snykBatchSize \in IF snykEnabled THEN BatchSizes ELSE {1}
  /\ osvBatches = <<>>
  /\ snykBatches = <<>>
  /\ osvSettled = <<>>
  /\ snykSettled = <<>>
  /\ osvAnswers = <<>>
  /\ snykAnswers = <<>>
  /\ scanned = None
  /\ completed = <<>>
  /\ UpdaterIdle
  /\ SemverIdle
  /\ MergeIdle
  /\ DetIdle

scanFrame ==
  <<callVars, stepVars, allVars, safeVars, mergeVars, detVars, semverVars, completed>>

(* lines 155-158, 248-252, 287-291: both source scans start, each cuts    *)
(* its batches and issues every query                                      *)
StartQueries ==
  /\ pc = "scan-call"
  /\ LET osvCut == createBatches(allDependencies, osvBatchSize)
         snykCut == IF snykEnabled THEN createBatches(allDependencies, snykBatchSize)
                    ELSE <<>>
     IN /\ osvBatches' = osvCut
        /\ snykBatches' = snykCut
        /\ osvSettled' = [b \in 1..Len(osvCut) |-> [i \in 1..Len(osvCut[b]) |-> Pending]]
        /\ snykSettled' = [b \in 1..Len(snykCut) |-> [i \in 1..Len(snykCut[b]) |-> Pending]]
  /\ osvAnswers' = [g \in 1..Len(allDependencies) |-> <<>>]
  /\ snykAnswers' = [g \in 1..Len(allDependencies) |-> <<>>]
  /\ pc' = "querying"
  /\ UNCHANGED <<scanFrame, allDependencies, snykEnabled, osvBatchSize, snykBatchSize,
                 scanned>>

Answer(dep, ok) == [name |-> dep.name, version |-> dep.version, ok |-> ok]

noteAnswer(answers, g, answer) ==
  IF g \in 1..Len(answers) THEN [answers EXCEPT ![g] = Append(@, answer)] ELSE answers

(* one OSV query settles, in any order                                     *)
SettleOsvQuery ==
  /\ pc = "querying"
  /\ \E b \in 1..Len(osvSettled) : \E i \in 1..Len(osvSettled[b]) : \E ok \in BOOLEAN :
       LET dep == osvBatches[b][i]
       IN /\ ~osvSettled[b][i].done
          /\ osvSettled' = [osvSettled EXCEPT ![b][i] = Settled(itemOutcome("osv", dep, ok))]
          /\ osvAnswers' = noteAnswer(osvAnswers, offsetOf(osvBatches, b) + i, Answer(dep, ok))
  /\ UNCHANGED <<pc, scanFrame, allDependencies, snykEnabled, osvBatchSize, snykBatchSize,
                 osvBatches, snykBatches, snykSettled, snykAnswers, scanned>>

(* one Snyk query settles, in any order                                    *)
SettleSnykQuery ==
  /\ pc = "querying"
  /\ \E b \in 1..Len(snykSettled) : \E i \in 1..Len(snykSettled[b]) : \E ok \in BOOLEAN :
       LET dep == snykBatches[b][i]
       IN /\ ~snykSettled[b][i].done
          /\ snykSettled' = [snykSettled EXCEPT ![b][i] = Settled(itemOutcome("snyk", dep, ok))]
          /\ snykAnswers' = noteAnswer(snykAnswers, offsetOf(snykBatches, b) + i, Answer(dep, ok))
  /\ UNCHANGED <<pc, scanFrame, allDependencies, snykEnabled, osvBatchSize, snykBatchSize,
                 osvBatches, snykBatches, osvSettled, osvAnswers, scanned>>

(* lines 155-161: both scans have returned and their lists are merged      *)
MergeScans ==
  /\ pc = "querying"
  /\ AllSettled(osvSettled)
  /\ AllSettled(snykSettled)
  /\ scanned' = Some(mergeVulnerabilities(sourceVulnerabilities(osvSettled),
                                          sourceVulnerabilities(snykSettled)))
  /\ pc' = "scanned"
  /\ UNCHANGED <<scanFrame, allDependencies, snykEnabled, osvBatchSize, snykBatchSize,
                 osvBatches, snykBatches, osvSettled, snykSettled, osvAnswers, snykAnswers>>

NextScan == StartQueries \/ SettleOsvQuery \/ SettleSnykQuery \/ MergeScans

SpecScan == InitScan /\ [][NextScan]_vars

(* ---- the scan with the order of completion recorded ---- *)
Completion(source, g, outcome) ==
  [source |-> source, position |-> g, vulnerabilities |-> outcome[1]]

scheduleFrame == <<callVars, stepVars, allVars, safeVars, mergeVars, detVars, semverVars>>

(* scanProject with both sources configured, on a list one entry shorter   *)
InitSchedule ==
  /\ pc = "scan-call"
  /\ \E k \in 0..(MaxScanDeps - 1) : allDependencies = [i \in 1..k |-> scanDependency(i)]
  /\ snykEnabled = TRUE
  /\ osvBatchSize \in BatchSizes
  /\ snykBatchSize \in BatchSizes
  /\ osvBatches = <<>>
  /\ snykBatches = <<>>
  /\ osvSettled = <<>>
  /\ snykSettled = <<>>
  /\ osvAnswers = <<>>
  /\ snykAnswers = <<>>
  /\ scanned = None
  /\ completed = <<>>
  /\ UpdaterIdle
  /\ SemverIdle
  /\ MergeIdle
  /\ DetIdle

(* one OSV query settles, in any order                                     *)
CompleteOsvQuery ==
  /\ pc = "querying"
  /\ \E b \in 1..Len(osvSettled) : \E i \in 1..Len(osvSettled[b]) : \E ok \in BOOLEAN :
       LET dep == osvBatches[b][i]
           g == offsetOf(osvBatches, b) + i
       IN /\ ~osvSettled[b][i].done
          /\ osvSettled' = [osvSettled EXCEPT ![b][i] = Settled(itemOutcome("osv", dep, ok))]
          /\ osvAnswers' = noteAnswer(osvAnswers, g, Answer(dep, ok))
          /\ completed' = Append(completed, Completion("osv", g, itemOutcome("osv", dep, ok)))
  /\ UNCHANGED <<pc, scheduleFrame, allDependencies, snykEnabled, osvBatchSize,
                 snykBatchSize, osvBatches, snykBatches, snykSettled, snykAnswers, scanned>>

(* one Snyk query settles, in any order                                    *)
CompleteSnykQuery ==
  /\ pc = "querying"
  /\ \E b \in 1..Len(snykSettled) : \E i \in 1..Len(snykSettled[b]) : \E ok \in BOOLEAN :
       LET dep == snykBatches[b][i]
           g == offsetOf(snykBatches, b) + i
       IN /\ ~snykSettled[b][i].done
          /\ snykSettled' = [snykSettled EXCEPT ![b][i] = Settled(itemOutcome("snyk", dep, ok))]
          /\ snykAnswers' = noteAnswer(snykAnswers, g, Answer(dep, ok))
          /\ completed' = Append(completed, Completion("snyk", g, itemOutcome("snyk", dep, ok)))
  /\ UNCHANGED <<pc, scheduleFrame, allDependencies, snykEnabled, osvBatchSize,
                 snykBatchSize, osvBatches, snykBatches, osvSettled, osvAnswers, scanned>>

NextSchedule == StartQueries \/ CompleteOsvQuery \/ CompleteSnykQuery \/ MergeScans

SpecSchedule == InitSchedule /\ [][NextSchedule]_vars

(* ---- SupplyChainDetector: typosquatting ---- *)
(* A package name is the sequence of its characters, so that positions,   *)
(* slices and lengths are those of the JavaScript string.                  *)
(* popularPackages (detector.ts lines 22-28), in insertion order.          *)
popularPackages == <<
  <<"l","o","d","a","s","h">>,
  <<"e","x","p","r","e","s","s">>,
  <<"r","e","a","c","t">>,
  <<"v","u","e">>,
  <<"a","n","g","u","l","a","r">>,
  <<"a","x","i","o","s">>,
  <<"m","o","m","e","n","t">>,
  <<"r","e","q","u","e","s","t">>,
  <<"u","n","d","e","r","s","c","o","r","e">>,
  <<"c","h","a","l","k">>,
  <<"c","o","m","m","a","n","d","e","r">>,
  <<"w","e","b","p","a","c","k">>,
  <<"b","a","b","e","l">>,
  <<"e","s","l","i","n","t">>,
  <<"p","r","e","t","t","i","e","r">>,
  <<"j","e","s","t">>,
  <<"m","o","c","h","a">>,
  <<"t","y","p","e","s","c","r","i","p","t">>,
  <<"r","e","a","c","t","-","d","o","m">>,
  <<"p","r","o","p","-","t","y","p","e","s">>,
  <<"r","e","d","u","x">>,
  <<"r","e","a","c","t","-","r","o","u","t","e","r">>,
  <<"n","e","x","t">>,
  <<"n","u","x","t">>,
  <<"g","a","t","s","b","y">>,
  <<"v","u","e","-","r","o","u","t","e","r">>,
  <<"v","u","e","x">>,
  <<"s","t","y","l","e","d","-","c","o","m","p","o","n","e","n","t","s">>,
  <<"e","m","o","t","i","o","n">>,
  <<"m","a","t","e","r","i","a","l","-","u","i">>,
  <<"a","n","t","-","d","e","s","i","g","n">>,
  <<"b","o","o","t","s","t","r","a","p">>,
  <<"t","a","i","l","w","i","n","d","c","s","s">>
>>

(* the characters names are edited with: those the confusion pairs name,   *)
(* a letter none of them names, and the two separators                     *)
Alphabet == {"l", "1", "o", "0", "m", "n", "s", "-", "."}

(* s.slice(0, i - 1) + s.slice(i): s without its i-th character            *)
removeAt(s, i) == SubSeq(s, 1, i - 1) \o SubSeq(s, i + 1, Len(s))

(* s.slice(0, i - 1) + c + s.slice(i - 1): c put before the i-th character *)
insertAt(s, i, c) == SubSeq(s, 1, i - 1) \o <<c>> \o SubSeq(s, i, Len(s))

(* s with c at the i-th position                                           *)
replaceAt(s, i, c) == [s EXCEPT ![i] = c]

(* s.slice(0, i - 1) + s[i + 1] + s[i] + s.slice(i + 1)                     *)
swapAt(s, i) == SubSeq(s, 1, i - 1) \o <<s[i + 1], s[i]>> \o SubSeq(s, i + 2, Len(s))

(* s.replace(new RegExp(a, 'g'), b) for a literal pattern a: every match,  *)
(* left to right, without overlap.                                         *)
RECURSIVE replaceAll(_, _, _)
replaceAll(s, a, b) ==
  IF Len(s) < Len(a) THEN s
  ELSE IF SubSeq(s, 1, Len(a)) = a
       THEN b \o replaceAll(SubSeq(s, Len(a) + 1, Len(s)), a, b)
       ELSE <<Head(s)>> \o replaceAll(Tail(s), a, b)

confusionPairs == <<
  << <<"l">>, <<"1">> >>,
  << <<"i">>, <<"1">> >>,
  << <<"o">>, <<"0">> >>,
  << <<"r", "n">>, <<"m">> >>,
  << <<"v", "v">>, <<"w">> >>,
  << <<"r", "n">>, <<"n">> >>
>>

Abs(n) == IF n < 0 THEN -n ELSE n

(* variant: no same-length comparison                                      *)
noSubstitution(candidate, target) == FALSE

(* 1. same length and exactly one position differs                         *)
singleSubstitution(candidate, target) ==
  /\ Len(candidate) = Len(target)
  /\ Cardinality({i \in 1..Len(candidate) : candidate[i] # target[i]}) = 1

(* 2. for (let i = 0; i < candidate.length; i++): the target without its   *)
(* character at index i                                                    *)
characterOmission(candidate, target) ==
  /\ Len(target) = Len(candidate) + 1
  /\ \E i \in 0..(Len(candidate) - 1) : removeAt(target, i + 1) = candidate

(* 3. for (let i = 0; i < target.length; i++): the candidate without its   *)
(* character at index i                                                    *)
characterAddition(candidate, target) ==
  /\ Len(candidate) = Len(target) + 1
  /\ \E i \in 0..(Len(target) - 1) : removeAt(candidate, i + 1) = target

(* 4. for (let i = 0; i < candidate.length - 1; i++): two neighbours       *)
(* exchanged                                                               *)
adjacentSwap(candidate, target) ==
  /\ Len(candidate) = Len(target)
  /\ \E i \in 0..(Len(candidate) - 2) : swapAt(candidate, i + 1) = target

(* 5. one confusion pair replaced throughout, in either direction          *)
characterConfusion(candidate, target) ==
  \E k \in 1..Len(confusionPairs) :
    \/ replaceAll(candidate, confusionPairs[k][1], confusionPairs[k][2]) = target
    \/ replaceAll(candidate, confusionPairs[k][2], confusionPairs[k][1]) = target

(* isTypoSquat (detector.ts lines 317-376)                                 *)
isTypoSquat(candidate, target) ==
  IF Abs(Len(candidate) - Len(target)) > 2 THEN FALSE
  ELSE \/ singleSubstitution(candidate, target)
       \/ characterOmission(candidate, target)
       \/ characterAddition(candidate, target)
       \/ adjacentSwap(candidate, target)
       \/ characterConfusion(candidate, target)

(* variant: popular names are compared like any other name                 *)
isTyposquattingPackageUnexempted(name) ==
  \E k \in 1..Len(popularPackages) : isTypoSquat(name, popularPackages[k])

(* isTyposquattingPackage (detector.ts lines 301-315)                      *)
isTyposquattingPackage(name) ==
  IF name \in Range(popularPackages) THEN FALSE
  ELSE \E k \in 1..Len(popularPackages) : isTypoSquat(name, popularPackages[k])

(* the threat detectTyposquatting pushes (description, evidence,           *)
(* recommendations and detectedAt do not vary with the decision)           *)
TyposquattingThreat(name) ==
  [type |-> "typosquatting", packageName |-> name, severity |-> "high"]

(* The names the detector is run on: the popular names themselves, every   *)
(* name one substitution, one deletion or one insertion away from one of   *)
(* them, and a name that resembles none.                                   *)
Substitutions(r) == {replaceAt(r, i, c) : i \in 1..Len(r), c \in Alphabet}
Deletions(r) == {removeAt(r, i) : i \in 1..Len(r)}
Insertions(r) == {insertAt(r, i, c) : i \in 1..(Len(r) + 1), c \in Alphabet}
Unrelated == <<"l", "e", "f", "t", "-", "p", "a", "d">>
CandidateNames ==
  Range(popularPackages) \cup {Unrelated}
    \cup UNION {Substitutions(popularPackages[k]) \cup Deletions(popularPackages[k])
                  \cup Insertions(popularPackages[k]) : k \in 1..Len(popularPackages)}

(* what follows the first entry of a dependency list                       *)
FollowingNames == {popularPackages[1], removeAt(popularPackages[2], 1)}
TypoDependencyLists ==
  {<<n>> \o rest : n \in CandidateNames,
                   rest \in UNION {[1..k -> FollowingNames] : k \in 0..(MaxTypoDeps - 1)}}
    \cup {[i \in 1..MaxTypoDeps |-> n] : n \in CandidateNames}

(* detectTyposquatting(dependencies), entered with threats = []            *)
InitTypo ==
  /\ pc = "typo-loop"
  /\ typoDependencies \in TypoDependencyLists
  /\ typoCursor = 0
  /\ threats = <<>>
  /\ RegistryIdle
  /\ UpdaterIdle
  /\ SemverIdle
  /\ MergeIdle
  /\ ScanIdle

typoFrame ==
  <<callVars, stepVars, allVars, safeVars, mergeVars, scanVars, regVars, semverVars>>

(* one round of for (const dep of dependencies)                            *)
CheckDependency ==
  /\ pc = "typo-loop"
  /\ typoCursor < Len(typoDependencies)
  /\ typoCursor' = typoCursor + 1
  /\ threats' = IF isTyposquattingPackage(typoDependencies[typoCursor + 1])
                THEN Append(threats, TyposquattingThreat(typoDependencies[typoCursor + 1]))
                ELSE threats
  /\ UNCHANGED <<pc, typoFrame, typoDependencies>>

(* return threats                                                          *)
ReturnThreats ==
  /\ pc = "typo-loop"
  /\ typoCursor = Len(typoDependencies)
  /\ pc' = "typo-returned"
  /\ UNCHANGED <<typoFrame, typoDependencies, typoCursor, threats>>

NextTypo == CheckDependency \/ ReturnThreats

SpecTypo == InitTypo /\ [][NextTypo]_vars

(* ---- SupplyChainDetector: the checks that read the registry ---- *)
(* Strings the checks scan are sequences of characters, as package names.  *)
(* A suspicious pattern /word\s*suffix/gi, /word\s+suffix/gi or /word/gi:  *)
(* a literal, then no, any or some white space, then a literal.            *)
Pattern(word, gap, suffix) == [word |-> word, gap |-> gap, suffix |-> suffix]

(* suspiciousPatterns (detector.ts lines 91-107), in order                 *)
suspiciousPatterns == <<
  Pattern(<<"e", "v", "a", "l">>, "any", <<"(">>),
  Pattern(<<"f", "u", "n", "c", "t", "i", "o", "n">>, "any", <<"(">>),
  Pattern(<<"c", "h", "i", "l", "d", "_", "p", "r", "o", "c", "e", "s", "s">>, "none", <<>>),
  Pattern(<<"e", "x", "e", "c">>, "any", <<"(">>),
  Pattern(<<"s", "p", "a", "w", "n">>, "any", <<"(">>),
  Pattern(<<"c", "u", "r", "l">>, "some", <<>>),
  Pattern(<<"w", "g", "e", "t">>, "some", <<>>),
  Pattern(<<"r", "m">>, "some", <<"-", "r", "f">>),
  Pattern(<<".", "b", "a", "s", "h", "r", "c">>, "none", <<>>),
  Pattern(<<".", "p", "r", "o", "f", "i", "l", "e">>, "none", <<>>),
  Pattern(<<"/", "e", "t", "c", "/">>, "none", <<>>),
  Pattern(<<"s", "u", "d", "o">>, "none", <<>>),
  Pattern(<<"c", "h", "m", "o", "d">>, "some", <<"7", "7", "7">>),
  Pattern(<<"b", "a", "s", "e", "6", "4">>, "none", <<>>),
  Pattern(<<"c", "r", "y", "p", "t", "o">>, "none", <<>>)
>>

Whitespace == {" "}

(* letters without case (the i flag, toLowerCase)                          *)
lowerCase(c) ==
  CASE c = "C" -> "c"
    [] c = "U" -> "u"
    [] c = "R" -> "r"
    [] c = "L" -> "l"
    [] c = "T" -> "t"
    [] c = "E" -> "e"
    [] c = "S" -> "s"
    [] OTHER -> c

(* the literal stands in content from position s on                        *)
matchesAt(literal, content, s) ==
  /\ s + Len(literal) - 1 <= Len(content)
  /\ \A j \in 1..Len(literal) : lowerCase(content[s + j - 1]) = literal[j]

(* the white space from position s on, as \s* and \s+ take all of it       *)
RECURSIVE spaceRun(_, _)
spaceRun(content, s) ==
  IF s <= Len(content) /\ content[s] \in Whitespace
  THEN 1 + spaceRun(content, s + 1)
  ELSE 0

(* where a match that starts at position s ends (the index after it, as    *)
(* JavaScript counts from 0), 0 when there is none                         *)
matchEnd(pattern, content, s) ==
  IF ~ matchesAt(pattern.word, content, s) THEN 0
  ELSE LET afterWord == s + Len(pattern.word)
           run == IF pattern.gap = "none" THEN 0 ELSE spaceRun(content, afterWord)
       IN IF pattern.gap = "some" /\ run = 0 THEN 0
          ELSE IF matchesAt(pattern.suffix, content, afterWord + run)
               THEN afterWord + run + Len(pattern.suffix) - 1
               ELSE 0

(* the leftmost match starting at position s or later                      *)
RECURSIVE exec(_, _, _)
exec(pattern, content, s) ==
  IF s > Len(content) THEN 0
  ELSE IF matchEnd(pattern, content, s) > 0 THEN matchEnd(pattern, content, s)
       ELSE exec(pattern, content, s + 1)

(* RegExp.prototype.test on a regular expression with the g flag: the      *)
(* search starts at lastIndex; a match leaves lastIndex at its end, a      *)
(* failure resets it to 0.  The value is the new lastIndex, 0 for false.   *)
test(pattern, content, last) == exec(pattern, content, last + 1)

(* Object.values(scripts).join(' ')                                        *)
RECURSIVE join(_)
join(values) ==
  IF values = <<>> THEN <<>>
  ELSE IF Len(values) = 1 THEN values[1]
       ELSE values[1] \o <<" ">> \o join(Tail(values))

(* versionInfo.scripts || {}, its bodies joined                            *)
scriptContent(versionInfo) ==
  join(IF versionInfo.scripts = None THEN <<>> ELSE versionInfo.scripts[1])

(* the indices k..Len(ends) of the patterns whose test was true            *)
RECURSIVE matchedFrom(_, _)
matchedFrom(ends, k) ==
  IF k > Len(ends) THEN <<>>
  ELSE (IF ends[k] > 0 THEN <<k>> ELSE <<>>) \o matchedFrom(ends, k + 1)

(* the threat pushed for a version (evidence: the matched patterns, in the *)
(* order of suspiciousPatterns, and the version)                           *)
MaliciousScriptThreat(name, version, matched) ==
  [type |-> "malicious-script", packageName |-> name, severity |-> "critical",
   evidence |-> [patterns |-> matched, version |-> version]]

(* for (const [version, versionInfo] of Object.entries(versions)): the     *)
(* threats and the patterns' lastIndex after the versions from k on        *)
RECURSIVE examineVersions(_, _, _, _, _)
examineVersions(name, versions, k, found, last) ==
  IF k > Len(versions) THEN [threats |-> found, lastIndex |-> last]
  ELSE LET content == scriptContent(versions[k])
           ends == [p \in 1..Len(suspiciousPatterns) |->
                      test(suspiciousPatterns[p], content, last[p])]
           matched == matchedFrom(ends, 1)
       IN examineVersions(name, versions, k + 1,
            IF Len(matched) > 0
            THEN Append(found, MaliciousScriptThreat(name, versions[k].version, matched))
            ELSE found,
            ends)

(* What the registry holds for a package and how the fetch of each check   *)
(* (scripts, activity, maintainers) ends: "ok", "network-error" (fetch     *)
(* rejects) or "not-ok" (fetchPackageInfo throws on the status).           *)
PackageInfo(versions, time, maintainers) ==
  [versions |-> versions, time |-> time, maintainers |-> maintainers]
Package(name, info, fetched) == [name |-> name, info |-> info, fetched |-> fetched]
FetchOutcomes == {"ok", "network-error", "not-ok"}
AllFetched == <<"ok", "ok", "ok">>

(* the body of detectMaliciousScripts' loop for one dependency: the try    *)
(* with its catch, and the continue on a document without versions         *)
scriptsOf(package, found, last) ==
  IF package.fetched[1] # "ok" \/ package.info.versions = None
  THEN [threats |-> found, lastIndex |-> last]
  ELSE examineVersions(package.name, package.info.versions[1], 1, found, last)

(* install script bodies                                                  *)
BodyJest == <<"j", "e", "s", "t">>
BodyCurl == <<"c", "u", "r", "l", " ", "x">>
BodySudoCurl == <<"l", "s", ";", "s", "u", "d", "o", " ", "c", "u", "r", "l", " ", " ", "x">>
BodyRm == <<"r", "m", " ", "-", "r", "f", " ", "/", "e", "t", "c", "/">>
BodyUpperCurl == <<"C", "U", "R", "L", " ", "x">>

(* what a published version may declare as scripts                         *)
ScriptOptions ==
  {None, Some(<<BodyJest>>), Some(<<BodyCurl>>), Some(<<BodySudoCurl>>),
   Some(<<BodyRm, BodyUpperCurl>>)}

versionName(k) ==
  CASE k = 1 -> "1.0.0"
    [] k = 2 -> "1.0.1"
    [] k = 3 -> "1.0.2"
    [] OTHER -> "1.0.3"

VersionInfo(version, scripts) == [version |-> version, scripts |-> scripts]

(* the versions object of a registry document: up to n entries             *)
VersionLists(n) ==
  {[k \in 1..Len(f) |-> VersionInfo(versionName(k), f[k])] : f \in SeqsUpTo(ScriptOptions, n)}

(* names of dependency entries: a popular package, a misspelt one and an   *)
(* unrelated one                                                           *)
DetectorNames == <<popularPackages[1], removeAt(popularPackages[2], 1), Unrelated>>
nameAt(i) ==
  IF i <= Len(DetectorNames) THEN DetectorNames[i]
  ELSE Unrelated \o [k \in 1..(i - Len(DetectorNames)) |-> "x"]

(* what detectMaliciousScripts may meet for one dependency                 *)
ScriptDocs ==
  {[info |-> PackageInfo(Some(versions), None, None), fetched |-> AllFetched] :
     versions \in VersionLists(MaxPublished)}
    \cup {[info |-> PackageInfo(None, None, None), fetched |-> AllFetched]}
    \cup {[info |-> PackageInfo(Some(<<VersionInfo("1.0.0", Some(<<BodyCurl>>))>>), None, None),
           fetched |-> <<outcome, "ok", "ok">>] : outcome \in FetchOutcomes \ {"ok"}}

versionCount(doc) == IF doc.info.versions = None THEN 0 ELSE Len(doc.info.versions[1])

(* the documents of the entries after the first: at most one version       *)
FollowingScriptDocs == {doc \in ScriptDocs : versionCount(doc) <= 1}

(* the dependency entries of a call, named by position                     *)
packagesFrom(docs, offset) ==
  [i \in 1..Len(docs) |-> Package(nameAt(i + offset), docs[i].info, docs[i].fetched)]
packagesOf(docs) == packagesFrom(docs, 0)

registryFrame == <<callVars, stepVars, allVars, safeVars, mergeVars, scanVars,
                   typoDependencies, typoCursor, semverVars>>

(* detectMaliciousScripts(dependencies), entered with threats = [] and the *)
(* patterns just created (lastIndex 0); the entries after the first have   *)
(* at most one version each                                                *)
InitScripts ==
  /\ pc = "scripts-loop"
  /\ \E n \in 1..MaxPackages :
       \E first \in ScriptDocs :
         \E following \in [1..(n - 1) -> FollowingScriptDocs] :
           packages = packagesOf(<<first>> \o following)
  /\ depCursor = 0
  /\ lastIndex = [p \in 1..Len(suspiciousPatterns) |-> 0]
  /\ threats = <<>>
  /\ typoDependencies = <<>>
  /\ typoCursor = 0
  /\ UpdaterIdle
  /\ SemverIdle
  /\ MergeIdle
  /\ ScanIdle

(* one round of for (const dep of dependencies)                            *)
ExamineScripts ==
  /\ pc = "scripts-loop"
  /\ depCursor < Len(packages)
  /\ LET after == scriptsOf(packages[depCursor + 1], threats, lastIndex)
     IN /\ threats' = after.threats
        /\ lastIndex' = after.lastIndex
  /\ depCursor' = depCursor + 1
  /\ UNCHANGED <<pc, registryFrame, packages>>

(* return threats                                                          *)
ReturnScriptThreats ==
  /\ pc = "scripts-loop"
  /\ depCursor = Len(packages)
  /\ pc' = "scripts-returned"
  /\ UNCHANGED <<registryFrame, regVars, threats>>

NextScripts == ExamineScripts \/ ReturnScriptThreats

SpecScripts == InitScripts /\ [][NextScripts]_vars

(* ---- detectSuspiciousActivity ---- *)
(* Times are counted in hours. A publish time is held as its age, the      *)
(* hours between it and the call (Date.now() - time); a string Date cannot *)
(* parse gives NaN.                                                        *)
Day == 24
RapidReleaseThreshold == 5
NewPackageDays == 7

Timestamp(age) == [valid |-> TRUE, age |-> age]
InvalidDate == [valid |-> FALSE, age |-> 0]

(* Date.now() - time < 24 * 60 * 60 * 1000 (false for NaN)                 *)
inLastDay(time) == time.valid /\ time.age < Day

(* (Date.now() - Math.min(...publishTimes)) / day < 7: Math.min is NaN     *)
(* with a NaN among the times and Infinity without any time                *)
firstPublishedRecently(times) ==
  \A k \in 1..Len(times) : times[k].valid /\ times[k].age < NewPackageDays * Day

ActivityThreat(name, description) ==
  [type |-> "suspicious-activity", packageName |-> name, severity |-> "medium",
   description |-> description]

RapidReleaseThreat(name) == ActivityThreat(name, "unusually high release activity")
NewPackageThreat(name) == ActivityThreat(name, "very recently published")

(* variant: five recent releases are enough                                *)
rapidReleaseFromFive(times) ==
  /\ Len(times) > 1
  /\ Cardinality({k \in 1..Len(times) : inLastDay(times[k])}) >= RapidReleaseThreshold

(* lines 166-172: more than one version, more than 5 in the last 24 hours  *)
rapidRelease(times) ==
  /\ Len(times) > 1
  /\ Cardinality({k \in 1..Len(times) : inLastDay(times[k])}) > RapidReleaseThreshold

(* variant: the age of the first publication decides alone                 *)
newPackageAnyHistory(times) == firstPublishedRecently(times)

(* variant: a first publication exactly 7 days old still counts            *)
newPackageUpToSevenDays(times) ==
  /\ \A k \in 1..Len(times) : times[k].valid /\ times[k].age <= NewPackageDays * Day
  /\ Len(times) = 1

(* lines 194-198                                                           *)
newPackage(times) == firstPublishedRecently(times) /\ Len(times) = 1

(* the body of detectSuspiciousActivity's loop for one dependency          *)
activityOf(package, found) ==
  IF package.fetched[2] # "ok" \/ package.info.time = None THEN found
  ELSE LET times == package.info.time[1]
       IN found
            \o (IF rapidRelease(times) THEN <<RapidReleaseThreat(package.name)>> ELSE <<>>)
            \o (IF newPackage(times) THEN <<NewPackageThreat(package.name)>> ELSE <<>>)

(* publish times of a package with a history, and of any package           *)
HistoryTimes == {Timestamp(1), Timestamp(Day - 1), Timestamp(Day),
                 Timestamp(NewPackageDays * Day + 1), InvalidDate}
PublishTimes == HistoryTimes \cup {Timestamp(NewPackageDays * Day - 1),
                                   Timestamp(NewPackageDays * Day)}

ActivityDoc(time, outcome) ==
  [info |-> PackageInfo(None, time, None), fetched |-> <<"ok", outcome, "ok">>]

(* the entries that may follow the first one                               *)
FollowingActivityDocs ==
  {ActivityDoc(Some(<<Timestamp(1)>>), "ok"), ActivityDoc(Some(<<Timestamp(1)>>), "not-ok")}

(* one dependency list with a package for every age and every number of    *)
(* publish times of that age                                               *)
CensusAges == <<Timestamp(1), Timestamp(Day - 1), Timestamp(Day),
                Timestamp(NewPackageDays * Day - 1), Timestamp(NewPackageDays * Day),
                InvalidDate>>
CensusPackages ==
  packagesOf([j \in 1..(Len(CensusAges) * MaxPublishTimes) |->
                ActivityDoc(Some([k \in 1..(((j - 1) \div Len(CensusAges)) + 1) |->
                                   CensusAges[((j - 1) % Len(CensusAges)) + 1]]), "ok")])

(* detectSuspiciousActivity(dependencies), entered with threats = []       *)
InitActivity ==
  /\ pc = "activity-loop"
  /\ \/ \E k \in 0..MaxPublishTimes :
          \E times \in [1..k -> IF k = 1 THEN PublishTimes ELSE HistoryTimes] :
            \E outcome \in FetchOutcomes :
              \E time \in {None, Some(times)} :
                \E rest \in SeqsUpTo(FollowingActivityDocs,
                                     IF k <= 2 /\ outcome = "ok" THEN MaxPackages - 1 ELSE 0) :
                  /\ (outcome # "ok" \/ time = None) => k = 1
                  /\ packages = packagesOf(<<ActivityDoc(time, outcome)>> \o rest)
     \/ packages = CensusPackages
  /\ depCursor = 0
  /\ lastIndex = <<>>
  /\ threats = <<>>
  /\ typoDependencies = <<>>
  /\ typoCursor = 0
  /\ UpdaterIdle
  /\ SemverIdle
  /\ MergeIdle
  /\ ScanIdle

(* one round of for (const dep of dependencies)                            *)
ExamineActivity ==
  /\ pc = "activity-loop"
  /\ depCursor < Len(packages)
  /\ threats' = activityOf(packages[depCursor + 1], threats)
  /\ depCursor' = depCursor + 1
  /\ UNCHANGED <<pc, registryFrame, packages, lastIndex>>

(* return threats                                                          *)
ReturnActivityThreats ==
  /\ pc = "activity-loop"
  /\ depCursor = Len(packages)
  /\ pc' = "activity-returned"
  /\ UNCHANGED <<registryFrame, regVars, threats>>

NextActivity == ExamineActivity \/ ReturnActivityThreats

SpecActivity == InitActivity /\ [][NextActivity]_vars

(* ---- detectCompromisedMaintainers ---- *)
(* email.toLowerCase()                                                     *)
toLowerCase(string) == [k \in 1..Len(string) |-> lowerCase(string[k])]

(* String.prototype.includes                                               *)
includes(string, part) ==
  \E s \in 1..(Len(string) + 1) :
    /\ s + Len(part) - 1 <= Len(string)
    /\ \A j \in 1..Len(part) : string[s + j - 1] = part[j]

(* the substrings of a disposable or placeholder address                   *)
suspiciousParts == {
  <<"t", "e", "m", "p">>,
  <<"f", "a", "k", "e">>,
  <<"t", "e", "s", "t">>,
  <<"e", "x", "a", "m", "p", "l", "e">>,
  <<"1", "0", "m", "i", "n", "u", "t", "e", "m", "a", "i", "l">>,
  <<"g", "u", "e", "r", "r", "i", "l", "l", "a", "m", "a", "i", "l">>
}

(* lines 238-251: the filter on maintainer.email                           *)
suspiciousMaintainer(maintainer) ==
  LET email == toLowerCase(maintainer.email)
  IN \/ \E part \in suspiciousParts : includes(email, part)
     \/ ~ includes(email, <<"@">>)

MaintainerThreat(name, severity, description, evidence) ==
  [type |-> "compromised-maintainer", packageName |-> name, severity |-> severity,
   description |-> description, evidence |-> evidence]

SuspiciousEmailThreat(name, suspicious) ==
  MaintainerThreat(name, "high", "suspicious email addresses", suspicious)
SingleMaintainerThreat(name) ==
  MaintainerThreat(name, "low", "only one maintainer", <<>>)

(* variant: the single-maintainer finding only when no address is flagged  *)
singleMaintainerUnlessFlagged(name, maintainers) ==
  /\ Len(maintainers) = 1
  /\ name \notin Range(popularPackages)
  /\ Len(SelectSeq(maintainers, suspiciousMaintainer)) = 0

(* line 273                                                                *)
singleMaintainer(name, maintainers) ==
  Len(maintainers) = 1 /\ name \notin Range(popularPackages)

(* the body of detectCompromisedMaintainers' loop for one dependency       *)
maintainersOf(package, found) ==
  IF package.fetched[3] # "ok" \/ package.info.maintainers = None THEN found
  ELSE LET maintainers == package.info.maintainers[1]
           suspicious == SelectSeq(maintainers, suspiciousMaintainer)
       IN found
            \o (IF Len(suspicious) > 0
                THEN <<SuspiciousEmailThreat(package.name, suspicious)>> ELSE <<>>)
            \o (IF singleMaintainer(package.name, maintainers)
                THEN <<SingleMaintainerThreat(package.name)>> ELSE <<>>)

Maintainer(name, email) == [name |-> name, email |-> email]
Maintainers ==
  {Maintainer("ann", <<"a", "@", "b", ".", "i", "o">>), Maintainer("bob", <<"t", "e", "m", "p", "@", "b", ".", "i", "o">>),
   Maintainer("cat", <<"b", ".", "i", "o">>), Maintainer("dan", <<"T", "E", "S", "T", "@", "b", ".", "i", "o">>)}

MaintainerDoc(maintainers, outcome) ==
  [info |-> PackageInfo(None, None, maintainers), fetched |-> <<"ok", "ok", outcome>>]

(* what detectCompromisedMaintainers may meet for one dependency           *)
MaintainerDocs ==
  {MaintainerDoc(Some(list), "ok") : list \in SeqsUpTo(Maintainers, MaxMaintainers)}
    \cup {MaintainerDoc(None, "ok")}
    \cup {MaintainerDoc(Some(<<Maintainer("ann", <<"a", "@", "b", ".", "i", "o">>)>>), outcome) :
            outcome \in FetchOutcomes \ {"ok"}}

(* the documents of the entries after the first: at most one maintainer    *)
FollowingMaintainerDocs ==
  {doc \in MaintainerDocs :
     doc.info.maintainers = None \/ Len(doc.info.maintainers[1]) <= 1}

(* detectCompromisedMaintainers(dependencies), entered with threats = [];  *)
(* the first entry is the popular name or the one after it                 *)
InitMaintainers ==
  /\ pc = "maintainers-loop"
  /\ \E n \in 1..MaxPackages :
       \E first \in MaintainerDocs :
         \E following \in [1..(n - 1) -> FollowingMaintainerDocs] :
           \E offset \in 0..1 :
             packages = packagesFrom(<<first>> \o following, offset)
  /\ depCursor = 0
  /\ lastIndex = <<>>
  /\ threats = <<>>
  /\ typoDependencies = <<>>
  /\ typoCursor = 0
  /\ UpdaterIdle
  /\ SemverIdle
  /\ MergeIdle
  /\ ScanIdle

(* one round of for (const dep of dependencies)                            *)
ExamineMaintainers ==
  /\ pc = "maintainers-loop"
  /\ depCursor < Len(packages)
  /\ threats' = maintainersOf(packages[depCursor + 1], threats)
  /\ depCursor' = depCursor + 1
  /\ UNCHANGED <<pc, registryFrame, packages, lastIndex>>

(* return threats                                                          *)
ReturnMaintainerThreats ==
  /\ pc = "maintainers-loop"
  /\ depCursor = Len(packages)
  /\ pc' = "maintainers-returned"
  /\ UNCHANGED <<registryFrame, regVars, threats>>

NextMaintainers == ExamineMaintainers \/ ReturnMaintainerThreats

SpecMaintainers == InitMaintainers /\ [][NextMaintainers]_vars

(* ---- detectThreats ---- *)
(* detectTyposquatting on the entries from k on                            *)
RECURSIVE typosquattingFrom(_, _)
typosquattingFrom(entries, k) ==
  IF k > Len(entries) THEN <<>>
  ELSE (IF isTyposquattingPackage(entries[k].name)
        THEN <<TyposquattingThreat(entries[k].name)>> ELSE <<>>)
         \o typosquattingFrom(entries, k + 1)

(* detectMaliciousScripts on the entries from k on: what each entry adds   *)
RECURSIVE scriptsFrom(_, _, _)
scriptsFrom(entries, k, last) ==
  IF k > Len(entries) THEN <<>>
  ELSE LET after == scriptsOf(entries[k], <<>>, last)
       IN <<after.threats>> \o scriptsFrom(entries, k + 1, after.lastIndex)

detectTyposquatting(entries) == typosquattingFrom(entries, 1)
detectMaliciousScripts(entries) ==
  flat(scriptsFrom(entries, 1, [p \in 1..Len(suspiciousPatterns) |-> 0]))
detectSuspiciousActivity(entries) ==
  flat([k \in 1..Len(entries) |-> activityOf(entries[k], <<>>)])
detectCompromisedMaintainers(entries) ==
  flat([k \in 1..Len(entries) |-> maintainersOf(entries[k], <<>>)])

(* registry documents with scripts, publish times and maintainers          *)
OffendingInfo ==
  PackageInfo(Some(<<VersionInfo("1.0.0", Some(<<BodyCurl>>))>>),
              Some(<<Timestamp(1)>>),
              Some(<<Maintainer("bob", <<"t", "e", "m", "p", "@", "b", ".", "i", "o">>)>>))
QuietInfo ==
  PackageInfo(Some(<<VersionInfo("1.0.0", Some(<<BodyJest>>))>>),
              Some(<<Timestamp(NewPackageDays * Day), Timestamp(NewPackageDays * Day + 1)>>),
              Some(<<Maintainer("ann", <<"a", "@", "b", ".", "i", "o">>),
                     Maintainer("eve", <<"e", "@", "b", ".", "i", "o">>)>>))

(* how the three fetches made for an entry end: all well, one of them      *)
(* rejected, or all answered with an error status                          *)
FetchPatterns ==
  {AllFetched, <<"network-error", "ok", "ok">>, <<"ok", "network-error", "ok">>,
   <<"ok", "ok", "network-error">>, <<"not-ok", "not-ok", "not-ok">>}

ThreatDocs ==
  {[info |-> info, fetched |-> fetched] :
     info \in {OffendingInfo, QuietInfo}, fetched \in FetchPatterns}

(* detectThreats(dependencies), entered with threats = []; the fetches of  *)
(* at most two entries fail                                                *)
InitThreats ==
  /\ pc = "threats-typosquatting"
  /\ \E n \in 1..(MaxPackages + 1) :
       \E docs \in [1..n -> ThreatDocs] :
         /\ Cardinality({k \in 1..n : docs[k].fetched # AllFetched}) <= 2
         /\ packages = packagesOf(docs)
  /\ depCursor = 0
  /\ lastIndex = <<>>
  /\ threats = <<>>
  /\ typoDependencies = <<>>
  /\ typoCursor = 0
  /\ UpdaterIdle
  /\ SemverIdle
  /\ MergeIdle
  /\ ScanIdle

(* lines 36-37, 40-41, 44-45, 48-49: await a check, push its threats       *)
RunTyposquatting ==
  /\ pc = "threats-typosquatting"
  /\ threats' = threats \o detectTyposquatting(packages)
  /\ pc' = "threats-scripts"
  /\ UNCHANGED <<registryFrame, regVars>>

RunMaliciousScripts ==
  /\ pc = "threats-scripts"
  /\ threats' = threats \o detectMaliciousScripts(packages)
  /\ pc' = "threats-activity"
  /\ UNCHANGED <<registryFrame, regVars>>

RunSuspiciousActivity ==
  /\ pc = "threats-activity"
  /\ threats' = threats \o detectSuspiciousActivity(packages)
  /\ pc' = "threats-maintainers"
  /\ UNCHANGED <<registryFrame, regVars>>

(* the last check, and return threats                                      *)
RunCompromisedMaintainers ==
  /\ pc = "threats-maintainers"
  /\ threats' = threats \o detectCompromisedMaintainers(packages)
  /\ pc' = "threats-returned"
  /\ UNCHANGED <<registryFrame, regVars>>

NextThreats ==
  \/ RunTyposquatting
  \/ RunMaliciousScripts
  \/ RunSuspiciousActivity
  \/ RunCompromisedMaintainers

SpecThreats == InitThreats /\ [][NextThreats]_vars

(* ---- SemverUtils.isBreakingUpgrade on version strings ---- *)
Digits == <<"0", "1", "2">>
isDigit(c) == \E d \in 1..Len(Digits) : Digits[d] = c
digitValue(c) == (CHOOSE d \in 1..Len(Digits) : Digits[d] = c) - 1

(* the last index of the run of digits that starts at i                    *)
RECURSIVE runEnd(_, _)
runEnd(s, i) == IF i < Len(s) /\ isDigit(s[i + 1]) THEN runEnd(s, i + 1) ELSE i

(* the decimal number written at s[i..j]                                   *)
RECURSIVE numberAt(_, _, _)
numberAt(s, i, j) ==
  IF j < i THEN 0 ELSE 10 * numberAt(s, i, j - 1) + digitValue(s[j])

(* the index of the first digit from i on, 0 when there is none            *)
RECURSIVE firstDigit(_, _)
firstDigit(s, i) ==
  IF i > Len(s) THEN 0 ELSE IF isDigit(s[i]) THEN i ELSE firstDigit(s, i + 1)

(* semver.coerce: the leftmost run of digits is the major component, a dot *)
(* and digits right after it the minor, and again the patch; the three are *)
(* then parsed as major.minor.patch, which rejects a component written     *)
(* with a leading zero; null when there is no digit at all                 *)
coerce(version) ==
  LET start == firstDigit(version, 1)
      component(from) ==
        from < Len(version) /\ version[from] = "." /\ isDigit(version[from + 1])
      majorEnd == runEnd(version, start)
      hasMinor == component(majorEnd + 1)
      minorEnd == IF hasMinor THEN runEnd(version, majorEnd + 2) ELSE majorEnd
      hasPatch == hasMinor /\ component(minorEnd + 1)
      patchEnd == IF hasPatch THEN runEnd(version, minorEnd + 2) ELSE minorEnd
      padded(i, j) == j > i /\ version[i] = "0"
  IN IF start = 0 THEN Invalid
     ELSE IF \/ padded(start, majorEnd)
             \/ hasMinor /\ padded(majorEnd + 2, minorEnd)
             \/ hasPatch /\ padded(minorEnd + 2, patchEnd)
          THEN Invalid
          ELSE Ver(numberAt(version, start, majorEnd),
                   IF hasMinor THEN numberAt(version, majorEnd + 2, minorEnd) ELSE 0,
                   IF hasPatch THEN numberAt(version, minorEnd + 2, patchEnd) ELSE 0,
                   FALSE)

VersionCharacters == {"0", "1", "2", ".", "x"}

semverFrame ==
  <<callVars, stepVars, allVars, safeVars, mergeVars, scanVars, detVars>>

(* isBreakingUpgrade(fromVersion, toVersion) is called                     *)
InitSemver ==
  /\ pc = "semver-call"
  /\ \E m, n \in 0..MaxVersionLength :
       /\ fromVersion \in [1..m -> VersionCharacters]
       /\ toVersion \in [1..n -> VersionCharacters]
  /\ breaking = None
  /\ UpdaterIdle
  /\ SafeInit
  /\ constraint = ""
  /\ critical = {}
  /\ MergeIdle
  /\ ScanIdle
  /\ DetIdle

(* lines 52-63: both arguments are coerced and the majors compared         *)
CallIsBreakingUpgrade ==
  /\ pc = "semver-call"
  /\ breaking' = Some(isBreakingUpgrade(coerce(fromVersion), coerce(toVersion)))
  /\ pc' = "semver-returned"
  /\ UNCHANGED <<semverFrame, fromVersion, toVersion>>

NextSemver == CallIsBreakingUpgrade

SpecSemver == InitSemver /\ [][NextSemver]_vars

(* ======================================================================= *)
(* Properties of calculateUpgradePath                                      *)
(* ======================================================================= *)
Returned == pc = "returned"

HasPath == Returned /\ result # None

(* the versions some vulnerability declares as patched                     *)
PatchedVersions == UNION {Range(vulnerabilities[i].patchedVersions) :
                            i \in 1..Len(vulnerabilities)}

(* the versions the registry was seen to publish                           *)
Published == IF registry.status = "ok" THEN registry.versions ELSE {}

PublishedPatched == Published \cap PatchedVersions

(* published patched versions strictly greater than the current version    *)
Candidates == {v \in PublishedPatched : greaterThan(v, currentVersion)}

NonBreakingCandidates == {v \in Candidates : v.major <= currentVersion.major}

Highest(S) == CHOOSE x \in S : \A y \in S : ~greaterThan(y, x)

Lowest(S) == CHOOSE x \in S : \A y \in S : ~greaterThan(x, y)

(* C1: a returned path's targetVersion is strictly greater than            *)
(* currentVersion, and when no published patched version is strictly       *)
(* greater than currentVersion the call returns null.                      *)
C1_TargetGreaterThanCurrent ==
  Returned =>
    /\ result # None => greaterThan(result[1].targetVersion, currentVersion)
    /\ Candidates = {} => result = None

(* a path was returned although a published patched version at or below    *)
(* the current version was on offer                                        *)
C1_Witness ==
  /\ HasPath
  /\ \E v \in PublishedPatched : ~greaterThan(v, currentVersion)

(* C2 (as claimed): when some published patched version greater than      *)
(* currentVersion is non-breaking, the call returns the highest such       *)
(* version with isBreaking = false.                                        *)
C2_HighestNonBreaking ==
  (Returned /\ NonBreakingCandidates # {}) =>
    /\ result # None
    /\ result[1].targetVersion = Highest(NonBreakingCandidates)
    /\ result[1].isBreaking = FALSE

ReleaseCandidates == {v \in Candidates : ~v.pre}

C4_NullOnNoVersions ==
  (Returned /\ (registry.status # "ok" \/ registry.versions = {} \/ PublishedPatched = {}))
    => result = None

(* versions are published and patched versions are declared, but none of   *)
(* the declared ones is published                                          *)
C4_Witness ==
  /\ Returned
  /\ result = None
  /\ Published # {}
  /\ PatchedVersions # {}
  /\ PublishedPatched = {}

SameMajor == result[1].targetVersion.major = currentVersion.major

SameMinor == result[1].targetVersion.minor = currentVersion.minor

CountSeverity(vulns, severity) ==
  Cardinality({i \in 1..Len(vulns) : vulns[i].severity = severity})

(* a vulnerability is resolved by the upgrade when one of its patched      *)
(* versions is at or below the target                                      *)
ResolvedBy(vuln, target) ==
  \E p \in Range(vuln.patchedVersions) : p.valid /\ ~semverGt(p, target)

ClaimedRiskScore(resolved) ==
  LET sCur == 10 * CountSeverity(vulnerabilities, "critical")
                + 5 * CountSeverity(vulnerabilities, "high")
                + 2 * CountSeverity(vulnerabilities, "medium")
                + CountSeverity(vulnerabilities, "low")
      sNew == 8 * CountSeverity(newVulnerabilities[1], "critical")
                + 4 * CountSeverity(newVulnerabilities[1], "high")
                + 2 * CountSeverity(newVulnerabilities[1], "medium")
                + CountSeverity(newVulnerabilities[1], "low")
      b == IF result[1].isBreaking THEN 3 ELSE 0
      raw == sCur - 3 * resolved + sNew + b
  IN IF raw > 0 THEN raw ELSE 0

RiskScoreCreditsEveryVulnerability ==
  HasPath => result[1].riskScore = ClaimedRiskScore(Len(vulnerabilities))

(* the path the same call returns when the OSV query fails                 *)
PathOnQueryFailure ==
  buildUpgradePath(packageName, currentVersion, targetVersion[1], vulnerabilities,
                   fixedVersions, queryVulnerabilities(OsvResponse(FALSE, <<>>)))

AllDone == pc = "done"

VulnerableNames == {allVulnerabilities[i].packageName : i \in 1..Len(allVulnerabilities)}

DependencyNames == {dependencies[i].name : i \in 1..Len(dependencies)}

VulnerabilitiesOf(name) ==
  LET OfPackage(v) == v.packageName = name
  IN SelectSeq(allVulnerabilities, OfPackage)

CallsFor(name) == {i \in 1..Len(calls) : calls[i].packageName = name}

C10_EveryVulnerableDependencyReported ==
  AllDone =>
    \A n \in VulnerableNames \cap DependencyNames :
      \E i \in 1..Len(upgradePaths) : upgradePaths[i].packageName = n

(* C10 (amended): the result holds exactly the paths calculateUpgradePath  *)
(* returned; a vulnerable package of the dependency list whose call        *)
(* returned null has no entry.                                             *)
C10_OnlyResolvedPackagesListed ==
  AllDone =>
    /\ Len(upgradePaths) = Cardinality({i \in 1..Len(calls) : calls[i].result # None})
    /\ \A i \in 1..Len(calls) :
         IF calls[i].result # None
         THEN \E k \in 1..Len(upgradePaths) : upgradePaths[k] = calls[i].result[1]
         ELSE \A k \in 1..Len(upgradePaths) :
                upgradePaths[k].packageName # calls[i].packageName

(* one package was resolved to a path, another had no safe upgrade         *)
C10_Witness ==
  /\ AllDone
  /\ upgradePaths # <<>>
  /\ \E i \in 1..Len(calls) : calls[i].result = None

(* ======================================================================= *)
(* Properties of findSafeVersion                                           *)
(* ======================================================================= *)
SafeReturned == pc = "safe-returned"

(* the published versions that satisfy the range                           *)
Satisfying == {v \in Published : satisfies(v, constraint)}

(* the last query made for v answered with a critical record               *)
ReportedCritical(v) ==
  \E i \in 1..Len(queries) :
    /\ queries[i].version = v
    /\ \A j \in (i + 1)..Len(queries) : queries[j].version # v
    /\ "critical" \in Range(queries[i].response.vulns)

NoQueryFailed == \A i \in 1..Len(queries) : queries[i].response.ok

HighestOrNone(S) == IF S = {} THEN None ELSE Some(Highest(S))

(* C11: findSafeVersion returns the highest published version satisfying   *)
(* the range for which OSV reported no critical vulnerability (a failed    *)
(* query reports none), and null exactly when there is no such version;    *)
(* when no query fails that is the highest satisfying version OSV holds no *)
(* critical record for.                                                    *)
C11_HighestWithoutCritical ==
  SafeReturned =>
    /\ safeVersion = HighestOrNone({v \in Satisfying : ~ReportedCritical(v)})
    /\ NoQueryFailed => safeVersion = HighestOrNone(Satisfying \ critical)

(* a version below the highest satisfying one was returned, every query    *)
(* having been answered                                                    *)
C11_Witness ==
  /\ SafeReturned
  /\ NoQueryFailed
  /\ safeVersion # None
  /\ safeVersion[1] # Highest(Satisfying)
  /\ Len(queries) >= 3

(* every satisfying version carries a critical record: null                *)
C11_WitnessNull ==
  /\ SafeReturned
  /\ safeVersion = None
  /\ Satisfying # {}

(* ======================================================================= *)
(* Properties of mergeVulnerabilities                                      *)
(* ======================================================================= *)
MergeReturned == merged # None

KeyPair(vuln) == <<vuln.packageName, vuln.id>>

KeyPairs(vulns) == {KeyPair(vulns[i]) : i \in 1..Len(vulns)}

NoSharedKey(vulns) ==
  \A i, j \in 1..Len(vulns) : KeyPair(vulns[i]) = KeyPair(vulns[j]) => i = j

RepeatsKey(vulns) == ~NoSharedKey(vulns)

(* C12: no two records of the list mergeVulnerabilities returns share the  *)
(* same (packageName, id), whatever keys the two input lists repeat.       *)
C12_Deduplicated ==
  /\ MergeReturned => NoSharedKey(merged[1])
  /\ remerged # None => NoSharedKey(remerged[1])

(* a key repeated inside the OSV list and met again in the Snyk list       *)
C12_Witness ==
  /\ MergeReturned
  /\ RepeatsKey(osvVulns)
  /\ RepeatsKey(snykVulns)
  /\ KeyPairs(osvVulns) \cap KeyPairs(snykVulns) # {}
  /\ osvVulns # snykVulns

MergedWithItself == MergeReturned /\ osvVulns = snykVulns

(* C13: a list merged with itself gives as many records as it has distinct *)
(* (packageName, id) keys, and merging that result with itself gives the   *)
(* same number again.                                                      *)
C13_MergeIdempotentCount ==
  /\ MergedWithItself => Len(merged[1]) = Cardinality(KeyPairs(osvVulns))
  /\ remerged # None => Len(remerged[1]) = Len(merged[1])

(* a list that repeats a key was merged with itself, twice over            *)
C13_Witness ==
  /\ MergedWithItself
  /\ remerged # None
  /\ RepeatsKey(osvVulns)
  /\ Len(merged[1]) = 1
  /\ Len(osvVulns) = 2

(* the severities of the input records that carry the key of vuln          *)
InputSeverities(vuln) ==
  {v.severity : v \in {w \in Range(osvVulns) \cup Range(snykVulns) : KeyPair(w) = KeyPair(vuln)}}

HighestSeverity(S) == CHOOSE s \in S : \A t \in S : severityOrder(s) >= severityOrder(t)

(* C14 (as claimed): every merged record carries the highest severity of   *)
(* all input records with its (packageName, id), whichever list and        *)
(* position they come from.                                                *)
C14_SeverityMax ==
  MergeReturned =>
    \A i \in 1..Len(merged[1]) :
      merged[1][i].severity = HighestSeverity(InputSeverities(merged[1][i]))

(* what the code does grant: the highest severity when the OSV list        *)
(* repeats no key                                                          *)
SeverityMaxWithoutOsvRepeats ==
  (MergeReturned /\ NoSharedKey(osvVulns)) =>
    \A i \in 1..Len(merged[1]) :
      merged[1][i].severity = HighestSeverity(InputSeverities(merged[1][i]))

(* the input records carrying the key of vuln, OSV list first, in order    *)
SeenFor(vuln) ==
  LET SameKey(w) == KeyPair(w) = KeyPair(vuln)
  IN SelectSeq(osvVulns \o snykVulns, SameKey)

HasCveId(vuln) == vuln.cveId # None /\ vuln.cveId[1] # ""

HasCvssScore(vuln) == vuln.cvssScore # None /\ vuln.cvssScore[1] # 0

FirstWithCveId(seen) ==
  seen[CHOOSE i \in 1..Len(seen) :
         HasCveId(seen[i]) /\ \A j \in 1..(i - 1) : ~HasCveId(seen[j])]

FirstWithCvssScore(seen) ==
  seen[CHOOSE i \in 1..Len(seen) :
         HasCvssScore(seen[i]) /\ \A j \in 1..(i - 1) : ~HasCvssScore(seen[j])]

FirstSeenWins(vuln) ==
  LET seen == SeenFor(vuln)
  IN /\ vuln.source = seen[1].source
     /\ (\E i \in 1..Len(seen) : HasCveId(seen[i])) =>
          vuln.cveId = FirstWithCveId(seen).cveId
     /\ (\E i \in 1..Len(seen) : HasCvssScore(seen[i])) =>
          vuln.cvssScore = FirstWithCvssScore(seen).cvssScore

(* C15 (as claimed): a merged record has the source of the first-seen      *)
(* record of its key, and for cveId and cvssScore the first-seen non-empty *)
(* value among the records of its key.                                     *)
C15_FirstSeenWins ==
  MergeReturned => \A i \in 1..Len(merged[1]) : FirstSeenWins(merged[1][i])

(* what the code does grant: first-seen values when the OSV list repeats   *)
(* no key                                                                  *)
FirstSeenWinsWithoutOsvRepeats ==
  (MergeReturned /\ NoSharedKey(osvVulns)) =>
    \A i \in 1..Len(merged[1]) : FirstSeenWins(merged[1][i])

(* the source attribute alone is that of the first-seen record             *)
SourceOfFirstSeen ==
  MergeReturned => \A i \in 1..Len(merged[1]) : merged[1][i].source = SeenFor(merged[1][i])[1].source

(* ======================================================================= *)
(* Properties of the scan                                                  *)
(* ======================================================================= *)
ScanDone == pc = "scanned"

(* the answers received for the dependency at position g, per source       *)
AnswersFor(answers, g) == {answers[g][k] : k \in 1..Len(answers[g])}

AllAnswers(answers) == UNION {AnswersFor(answers, g) : g \in 1..Len(answers)}

(* the keys of the records the answered queries reported                   *)
ReportedKeys ==
  {KeyPair(reportedBy("osv", a)[1]) : a \in {x \in AllAnswers(osvAnswers) : x.ok}}
    \cup {KeyPair(reportedBy("snyk", a)[1]) : a \in {x \in AllAnswers(snykAnswers) : x.ok}}

SomeQueryFailed ==
  \E a \in AllAnswers(osvAnswers) \cup AllAnswers(snykAnswers) : ~a.ok

NoPromiseRejected(settled) ==
  \A b \in 1..Len(settled) : \A i \in 1..Len(settled[b]) :
    settled[b][i].done => settled[b][i].outcome # None

(* C16: a failed query settles as an empty list, never as a rejection, so  *)
(* no Promise.all of a batch or of a scan is rejected, and the list the    *)
(* scan returns holds exactly the vulnerabilities the answered queries     *)
(* reported.                                                               *)
C16_FailureIsolated ==
  /\ NoPromiseRejected(osvSettled) /\ NoPromiseRejected(snykSettled)
  /\ ScanDone => KeyPairs(scanned[1]) = ReportedKeys

(* one OSV query of a batch failed, another of the same batch answered,    *)
(* and the scan returned the answered one's vulnerability                  *)
C16_Witness ==
  /\ ScanDone
  /\ \E b \in 1..Len(osvSettled) : \E i, j \in 1..Len(osvSettled[b]) :
       /\ osvSettled[b][i].outcome = Some(<<>>)
       /\ osvSettled[b][j].outcome # Some(<<>>)
  /\ SomeQueryFailed
  /\ scanned[1] # <<>>

BatchesCut == pc \in {"querying", "scanned"}

(* consecutive non-empty slices of at most batchSize items that make up    *)
(* the list again                                                          *)
IsPartition(batches, items, batchSize) ==
  /\ flat(batches) = items
  /\ \A b \in 1..Len(batches) : Len(batches[b]) \in 1..batchSize

(* every dependency was queried exactly once, as itself                    *)
QueriedOnce(answers) ==
  /\ Len(answers) = Len(allDependencies)
  /\ \A g \in 1..Len(answers) :
       /\ Len(answers[g]) = 1
       /\ answers[g][1].name = allDependencies[g].name
       /\ answers[g][1].version = allDependencies[g].version

(* what a source reported, dependency by dependency, batches left aside    *)
ReportedInOrder(source, answers) ==
  flat([g \in 1..Len(answers) |->
          IF answers[g] # <<>> /\ answers[g][1].ok
          THEN reportedBy(source, allDependencies[g]) ELSE <<>>])

(* C17: whatever the batch sizes (>= 1), createBatches cuts the dependency *)
(* list into consecutive non-empty slices of at most batchSize items that  *)
(* concatenate to the list, every dependency is queried exactly once per   *)
(* source, and the scan returns the merge of what the sources reported     *)
(* dependency by dependency, in which no batch size appears.               *)
C17_BatchSizeIrrelevant ==
  /\ BatchesCut =>
       /\ IsPartition(osvBatches, allDependencies, osvBatchSize)
       /\ snykEnabled => IsPartition(snykBatches, allDependencies, snykBatchSize)
  /\ ScanDone =>
       /\ QueriedOnce(osvAnswers)
       /\ snykEnabled => QueriedOnce(snykAnswers)
       /\ ~snykEnabled => \A g \in 1..Len(snykAnswers) : snykAnswers[g] = <<>>
       /\ scanned[1] = mergeVulnerabilities(ReportedInOrder("osv", osvAnswers),
                                            ReportedInOrder("snyk", snykAnswers))

(* the two sources cut the list differently, one with a short last batch,  *)
(* and the scan returned vulnerabilities                                   *)
C17_Witness ==
  /\ ScanDone
  /\ snykEnabled
  /\ Len(osvBatches) # Len(snykBatches)
  /\ \E b \in 1..Len(osvBatches) : Len(osvBatches[b]) < osvBatchSize
  /\ Len(scanned[1]) >= 2

(* ======================================================================= *)
(* Properties of detectTyposquatting                                       *)
(* ======================================================================= *)
TypoReturned == pc = "typo-returned"

PopularNames == Range(popularPackages)

(* the dependency entries of a name, and the typosquatting threats at high *)
(* severity / the threats of any kind the call returned for it             *)
EntriesOf(name) ==
  Cardinality({i \in 1..Len(typoDependencies) : typoDependencies[i] = name})
HighTyposquattingThreatsFor(name) ==
  Cardinality({i \in 1..Len(threats) : threats[i] = TyposquattingThreat(name)})
ThreatsFor(name) ==
  Cardinality({i \in 1..Len(threats) : threats[i].packageName = name})

(* each entry of the name is flagged, once                                 *)
FlaggedOncePerEntry(name) ==
  /\ HighTyposquattingThreatsFor(name) = EntriesOf(name)
  /\ ThreatsFor(name) = EntriesOf(name)

(* name is r with the character at exactly one position changed            *)
OnePositionChanged(name, r) ==
  /\ Len(name) = Len(r)
  /\ \E i \in 1..Len(r) : /\ name[i] # r[i]
                          /\ \A j \in 1..Len(r) : j # i => name[j] = r[j]

(* name is r without the character at one of its positions                 *)
OneCharacterDeleted(name, r) == \E i \in 1..Len(r) : name = removeAt(r, i)

(* name is r with one character put in before one of its characters or     *)
(* after the last                                                          *)
OneCharacterInserted(name, r) == \E i \in 1..Len(name) : removeAt(name, i) = r

(* C18: a dependency whose name is in the popular-package set never        *)
(* produces a typosquatting threat, however close it is to another popular *)
(* name.                                                                   *)
C18_PopularExempt ==
  \A i \in 1..Len(threats) :
    threats[i].type = "typosquatting" => threats[i].packageName \notin PopularNames

(* a popular name one edit away from another popular name was scanned      *)
C18_Witness ==
  /\ TypoReturned
  /\ \E i \in 1..Len(typoDependencies) :
       /\ typoDependencies[i] \in PopularNames
       /\ \E r \in PopularNames :
            r # typoDependencies[i] /\ OnePositionChanged(typoDependencies[i], r)
       /\ ThreatsFor(typoDependencies[i]) = 0

(* C19: a dependency named like a popular name with the character at       *)
(* exactly one position changed, and not itself a popular name, is flagged *)
(* as typosquatting at high severity, with exactly one threat per          *)
(* dependency entry.                                                       *)
C19_SubstitutionFlagged ==
  TypoReturned =>
    \A name \in Range(typoDependencies) :
      (name \notin PopularNames /\ \E r \in PopularNames : OnePositionChanged(name, r))
        => FlaggedOncePerEntry(name)

(* a substituted name listed twice got two threats                         *)
C19_Witness ==
  /\ TypoReturned
  /\ Len(typoDependencies) >= 2
  /\ typoDependencies[1] = typoDependencies[2]
  /\ typoDependencies[1] \notin PopularNames
  /\ \E r \in PopularNames : OnePositionChanged(typoDependencies[1], r)
  /\ ~ characterConfusion(typoDependencies[1], popularPackages[1])
  /\ HighTyposquattingThreatsFor(typoDependencies[1]) = EntriesOf(typoDependencies[1])
  /\ EntriesOf(typoDependencies[1]) >= 2

(* C20: a dependency named like a popular name with the character at any   *)
(* one position (first to last) deleted, or with one character inserted at *)
(* any position (before the first through after the last), and not itself  *)
(* a popular name, is flagged.                                             *)
C20_EveryPositionTested ==
  TypoReturned =>
    \A name \in Range(typoDependencies) :
      (/\ name \notin PopularNames
       /\ \E r \in PopularNames : OneCharacterDeleted(name, r) \/ OneCharacterInserted(name, r))
        => FlaggedOncePerEntry(name)

(* the same for the positions the two loops do reach: a deletion anywhere  *)
(* but at the last character, an insertion anywhere but after the last     *)
EditsBeforeTheLastFlagged ==
  TypoReturned =>
    \A name \in Range(typoDependencies) :
      (/\ name \notin PopularNames
       /\ \E r \in PopularNames :
            \/ \E i \in 1..(Len(r) - 1) : name = removeAt(r, i)
            \/ \E i \in 1..(Len(name) - 1) : removeAt(name, i) = r)
        => FlaggedOncePerEntry(name)

(* a name made by deleting the last character of a popular name, or by     *)
(* appending one, that no technique matches against any popular name       *)
LastPositionMissed ==
  /\ TypoReturned
  /\ \E name \in Range(typoDependencies) :
       /\ name \notin PopularNames
       /\ \E r \in PopularNames :
            name = removeAt(r, Len(r)) \/ removeAt(name, Len(name)) = r
       /\ ThreatsFor(name) = 0

(* ======================================================================= *)
(* Properties of detectMaliciousScripts                                    *)
(* ======================================================================= *)
ScriptsReturned == pc = "scripts-returned"

(* the patterns that match a string, whatever was tested before            *)
MatchingPatterns(content) ==
  matchedFrom([p \in 1..Len(suspiciousPatterns) |-> exec(suspiciousPatterns[p], content, 1)], 1)

(* the versions detectMaliciousScripts examines for the i-th dependency    *)
ExaminedVersions(i) ==
  IF packages[i].fetched[1] # "ok" \/ packages[i].info.versions = None THEN <<>>
  ELSE packages[i].info.versions[1]

(* the threats a version of the i-th dependency is owed                    *)
OwedScriptThreats(i, k) ==
  LET matching == MatchingPatterns(scriptContent(ExaminedVersions(i)[k]))
  IN IF Len(matching) > 0
     THEN <<MaliciousScriptThreat(packages[i].name, ExaminedVersions(i)[k].version, matching)>>
     ELSE <<>>

RECURSIVE OwedFromVersion(_, _)
OwedFromVersion(i, k) ==
  IF k > Len(ExaminedVersions(i)) THEN <<>>
  ELSE OwedScriptThreats(i, k) \o OwedFromVersion(i, k + 1)

RECURSIVE OwedFromDependency(_)
OwedFromDependency(i) ==
  IF i > Len(packages) THEN <<>>
  ELSE OwedFromVersion(i, 1) \o OwedFromDependency(i + 1)

(* C21: every version whose joined script bodies match some pattern gets   *)
(* exactly one malicious-script threat at critical severity whose evidence *)
(* lists every matching pattern, whatever was examined earlier in the      *)
(* call, and a version matching no pattern gets none.                      *)
C21_OneThreatPerOffendingVersion ==
  ScriptsReturned => threats = OwedFromDependency(1)

(* the same for the first version a call examines ...                      *)
FirstExaminedVersionJudgedAlone ==
  (ScriptsReturned /\ Len(ExaminedVersions(1)) > 0) =>
    (IF Len(OwedScriptThreats(1, 1)) > 0
     THEN Len(threats) > 0 /\ threats[1] = OwedScriptThreats(1, 1)[1]
     ELSE \A t \in 1..Len(threats) :
            ~ (/\ threats[t].packageName = packages[1].name
               /\ threats[t].evidence.version = ExaminedVersions(1)[1].version))

(* ... and no threat names a pattern that does not match                   *)
OnlyMatchingPatternsListed ==
  \A t \in 1..Len(threats) :
    \E i \in 1..Len(packages) : \E k \in 1..Len(ExaminedVersions(i)) :
      /\ threats[t].packageName = packages[i].name
      /\ threats[t].evidence.version = ExaminedVersions(i)[k].version
      /\ Range(threats[t].evidence.patterns)
           \subseteq Range(MatchingPatterns(scriptContent(ExaminedVersions(i)[k])))

(* two versions with the same offending scripts, the second left out       *)
RepeatedScriptMissed ==
  /\ ScriptsReturned
  /\ Len(packages) = 1
  /\ Len(ExaminedVersions(1)) = 2
  /\ scriptContent(ExaminedVersions(1)[1]) = scriptContent(ExaminedVersions(1)[2])
  /\ Len(OwedFromDependency(1)) = 2
  /\ Len(threats) = 1

(* ======================================================================= *)
(* Properties of detectSuspiciousActivity                                  *)
(* ======================================================================= *)
ActivityReturned == pc = "activity-returned"

(* the publish times the call saw for the i-th dependency                  *)
PublishTimesOf(i) ==
  IF packages[i].fetched[2] # "ok" \/ packages[i].info.time = None THEN <<>>
  ELSE packages[i].info.time[1]

(* how many of them fall within the 24 hours before the call               *)
RecentCount(i) ==
  Cardinality({k \in 1..Len(PublishTimesOf(i)) :
                 PublishTimesOf(i)[k].valid /\ PublishTimesOf(i)[k].age < Day})

(* the findings returned for the i-th dependency (names differ by entry)   *)
CountOf(threat) == Cardinality({t \in 1..Len(threats) : threats[t] = threat})
RapidFindings(i) == CountOf(RapidReleaseThreat(packages[i].name))
NewFindings(i) == CountOf(NewPackageThreat(packages[i].name))
FindingsFor(i) ==
  Cardinality({t \in 1..Len(threats) : threats[t].packageName = packages[i].name})

(* C22: the rapid-release finding (suspicious-activity, medium) is emitted *)
(* for a package if and only if more than 5 of its publish times fall      *)
(* within the 24 hours before now: 6 trigger it, 4 or 5 do not.            *)
C22_RapidReleaseAboveFive ==
  ActivityReturned =>
    \A i \in 1..Len(packages) :
      RapidFindings(i) = (IF RecentCount(i) > 5 THEN 1 ELSE 0)

(* six publish times in the window, and the finding                        *)
C22_Witness ==
  /\ ActivityReturned
  /\ RecentCount(1) = 6
  /\ RapidFindings(1) = 1
  /\ packages # CensusPackages

(* five publish times in the window, and no finding                        *)
FiveRecentNotFlagged ==
  /\ ActivityReturned
  /\ RecentCount(1) = 5
  /\ Len(PublishTimesOf(1)) > 5
  /\ RapidFindings(1) = 0

(* C23: the new-package finding (suspicious-activity, medium) is emitted   *)
(* for a package if and only if it has exactly one published version and   *)
(* that version was published less than 7 days before now.                 *)
C23_NewPackageSingleRecentVersion ==
  ActivityReturned =>
    \A i \in 1..Len(packages) :
      NewFindings(i) = (IF /\ Len(PublishTimesOf(i)) = 1
                           /\ PublishTimesOf(i)[1].valid
                           /\ PublishTimesOf(i)[1].age < 7 * Day
                        THEN 1 ELSE 0)

(* one version, published an hour short of 7 days ago, and the finding     *)
C23_Witness ==
  /\ ActivityReturned
  /\ PublishTimesOf(1) = <<Timestamp(7 * Day - 1)>>
  /\ NewFindings(1) = 1
  /\ packages # CensusPackages

(* the four outcomes a dependency may have                                 *)
NoFinding(i) == FindingsFor(i) = 0
RapidAlone(i) == RapidFindings(i) = 1 /\ FindingsFor(i) = 1
NewAlone(i) == NewFindings(i) = 1 /\ FindingsFor(i) = 1
BothFindings(i) == RapidFindings(i) >= 1 /\ NewFindings(i) >= 1

(* C24: the two triggers are independent: among the packages of one call   *)
(* there can be one with no finding, one with either finding alone, and    *)
(* one with both findings together.  (Stated of the call that examines a   *)
(* package for every age and every number of publish times.)               *)
C24_AllFourOutcomes ==
  (ActivityReturned /\ packages = CensusPackages) =>
    /\ \E i \in 1..Len(packages) : NoFinding(i)
    /\ \E i \in 1..Len(packages) : RapidAlone(i)
    /\ \E i \in 1..Len(packages) : NewAlone(i)
    /\ \E i \in 1..Len(packages) : BothFindings(i)

(* C24 as amended: a dependency gets no finding, the rapid-release finding *)
(* alone or the new-package finding alone, never both; each of the three   *)
(* occurs in the call that examines every package.                         *)
C24_ZeroOrOneFinding ==
  ActivityReturned =>
    /\ \A i \in 1..Len(packages) : NoFinding(i) \/ RapidAlone(i) \/ NewAlone(i)
    /\ \A i \in 1..Len(packages) : ~ BothFindings(i)
    /\ packages = CensusPackages =>
         /\ \E i \in 1..Len(packages) : NoFinding(i)
         /\ \E i \in 1..Len(packages) : RapidAlone(i)
         /\ \E i \in 1..Len(packages) : NewAlone(i)

(* more than 5 publish times in the last 24 hours, hence a first           *)
(* publication less than 7 days old, and the rapid-release finding alone   *)
C24_Witness ==
  /\ ActivityReturned
  /\ RecentCount(1) > 5
  /\ firstPublishedRecently(PublishTimesOf(1))
  /\ RapidAlone(1)

(* ======================================================================= *)
(* Properties of detectCompromisedMaintainers                              *)
(* ======================================================================= *)
MaintainersReturned == pc = "maintainers-returned"

(* the maintainers the call saw for the i-th dependency                    *)
MaintainersSeen(i) ==
  IF packages[i].fetched[3] # "ok" \/ packages[i].info.maintainers = None THEN <<>>
  ELSE packages[i].info.maintainers[1]

SingleMaintainerFindings(i) == CountOf(SingleMaintainerThreat(packages[i].name))

EmailFindings(i) ==
  Cardinality({t \in 1..Len(threats) :
                 /\ threats[t].packageName = packages[i].name
                 /\ threats[t].type = "compromised-maintainer"
                 /\ threats[t].severity = "high"})

(* C25: the low-severity single-maintainer finding is emitted for every    *)
(* package with exactly one maintainer that is not a popular package,      *)
(* whether or not the high-severity email finding is emitted for it too,   *)
(* and never for a popular package.                                        *)
C25_SingleMaintainerIndependent ==
  MaintainersReturned =>
    \A i \in 1..Len(packages) :
      SingleMaintainerFindings(i) =
        (IF Len(MaintainersSeen(i)) = 1 /\ packages[i].name \notin PopularNames
         THEN 1 ELSE 0)

(* one maintainer with a flagged address: both findings for the package    *)
C25_Witness ==
  /\ MaintainersReturned
  /\ Len(MaintainersSeen(1)) = 1
  /\ packages[1].name \notin PopularNames
  /\ EmailFindings(1) = 1
  /\ SingleMaintainerFindings(1) = 1

(* a popular package with one maintainer: no single-maintainer finding     *)
PopularSingleMaintainerExempt ==
  /\ MaintainersReturned
  /\ Len(MaintainersSeen(1)) = 1
  /\ packages[1].name \in PopularNames
  /\ SingleMaintainerFindings(1) = 0

(* ======================================================================= *)
(* Properties of detectThreats                                             *)
(* ======================================================================= *)
ThreatsReturned == pc = "threats-returned"

(* the same dependency list with every fetch succeeding                    *)
AllFetchedPackages == [k \in 1..Len(packages) |-> [packages[k] EXCEPT !.fetched = AllFetched]]

(* what each check returns for the k-th entry when every fetch succeeds    *)
ScriptFindingsIfFetched(k) ==
  scriptsFrom(AllFetchedPackages, 1, [p \in 1..Len(suspiciousPatterns) |-> 0])[k]
ActivityFindingsIfFetched(k) == activityOf(AllFetchedPackages[k], <<>>)
MaintainerFindingsIfFetched(k) == maintainersOf(AllFetchedPackages[k], <<>>)

ReturnedOfType(k, type) ==
  {threats[t] : t \in {u \in 1..Len(threats) :
                         threats[u].packageName = packages[k].name /\ threats[u].type = type}}

(* the check of the given type neither loses a finding of an entry whose   *)
(* fetch succeeded nor reports an entry whose fetch failed                 *)
Isolated(k, check, type, findingsIfFetched) ==
  IF packages[k].fetched[check] = "ok"
  THEN Range(findingsIfFetched) \subseteq ReturnedOfType(k, type)
  ELSE ReturnedOfType(k, type) = {}

(* C26: detectThreats returns whatever registry lookups fail; a failed     *)
(* fetch makes the affected check skip only that package, and the findings *)
(* for every other package and every other check are still returned.       *)
C26_FailureSkipsOnlyThatPackage ==
  ThreatsReturned =>
    \A k \in 1..Len(packages) :
      /\ Range(typosquattingFrom(packages, k)) \subseteq Range(threats)
      /\ Isolated(k, 1, "malicious-script", ScriptFindingsIfFetched(k))
      /\ Isolated(k, 2, "suspicious-activity", ActivityFindingsIfFetched(k))
      /\ Isolated(k, 3, "compromised-maintainer", MaintainerFindingsIfFetched(k))

(* the same without the script check's findings for fetched entries        *)
FailureIsolatedOutsideScripts ==
  ThreatsReturned =>
    \A k \in 1..Len(packages) :
      /\ Range(typosquattingFrom(packages, k)) \subseteq Range(threats)
      /\ packages[k].fetched[1] # "ok" => ReturnedOfType(k, "malicious-script") = {}
      /\ Isolated(k, 2, "suspicious-activity", ActivityFindingsIfFetched(k))
      /\ Isolated(k, 3, "compromised-maintainer", MaintainerFindingsIfFetched(k))

(* a failed fetch between two offending packages: the later one's          *)
(* malicious-script finding is lost                                        *)
ScriptFindingLostToFailure ==
  /\ ThreatsReturned
  /\ \E j, k \in 1..Len(packages) :
       /\ j < k
       /\ packages[j].fetched[1] # "ok"
       /\ packages[k].fetched[1] = "ok"
       /\ Len(ScriptFindingsIfFetched(k)) > 0
       /\ ReturnedOfType(k, "malicious-script") = {}

(* ======================================================================= *)
(* Properties of SemverUtils.isBreakingUpgrade                             *)
(* ======================================================================= *)
SemverReturned == pc = "semver-returned"

(* the string has a digit, and the first run of digits and the dotted runs *)
(* after it are written without a leading zero                             *)
Parsable(version) == coerce(version).valid

(* the number the first run of digits of the string spells                 *)
LeadingNumber(version) ==
  LET starts == {i \in 1..Len(version) :
                   isDigit(version[i]) /\ \A h \in 1..(i - 1) : ~isDigit(version[h])}
      i == CHOOSE i \in starts : TRUE
      ends == {j \in i..Len(version) :
                 /\ \A h \in i..j : isDigit(version[h])
                 /\ j < Len(version) => ~isDigit(version[j + 1])}
      j == CHOOSE j \in ends : TRUE
  IN numberAt(version, i, j)

(* C27: isBreakingUpgrade(from, to) always returns a boolean: true exactly *)
(* when either version cannot be parsed or the major component of to is    *)
(* greater than that of from, false otherwise.                             *)
C27_BreakingUpgradeTotalFailSafe ==
  SemverReturned =>
    /\ breaking \in {Some(TRUE), Some(FALSE)}
    /\ breaking = Some(\/ ~Parsable(fromVersion)
                       \/ ~Parsable(toVersion)
                       \/ LeadingNumber(toVersion) > LeadingNumber(fromVersion))

(* an unparsable argument makes the upgrade breaking                       *)
C27_Witness ==
  /\ SemverReturned
  /\ fromVersion = <<"1", ".", "0">>
  /\ toVersion = <<"x">>
  /\ breaking = Some(TRUE)

(* a higher major is breaking, a higher minor is not                       *)
MajorIncreaseBreaking ==
  /\ SemverReturned
  /\ fromVersion = <<"1", ".", "2">>
  /\ toVersion = <<"2", ".", "0">>
  /\ breaking = Some(TRUE)

MinorIncreaseNotBreaking ==
  /\ SemverReturned
  /\ fromVersion = <<"1", ".", "0">>
  /\ toVersion = <<"1", ".", "1">>
  /\ breaking = Some(FALSE)

(* a string without a digit never yields a compatible upgrade              *)
NoDigitIsBreaking ==
  SemverReturned =>
    ((\A i \in 1..Len(toVersion) : ~isDigit(toVersion[i])) => breaking = Some(TRUE))

(* ======================================================================= *)
(* fixedVulnerabilities of the returned path                               *)
(* ======================================================================= *)
(* the ids of the input vulnerabilities that name a patched version        *)
PatchedIds ==
  {vulnerabilities[i].id : i \in {j \in 1..Len(vulnerabilities) :
                                    vulnerabilities[j].patchedVersions # <<>>}}

FixedVulnerabilitiesListEveryInput ==
  HasPath =>
    result[1].fixedVulnerabilities =
      [i \in 1..Len(vulnerabilities) |-> vulnerabilities[i].id]

(* a path that reports a vulnerability without any patched version as fixed *)
UnpatchedReportedFixed ==
  /\ HasPath
  /\ \E i \in 1..Len(vulnerabilities) :
       /\ vulnerabilities[i].patchedVersions = <<>>
       /\ vulnerabilities[i].id \notin PatchedIds
       /\ Includes(result[1].fixedVulnerabilities, vulnerabilities[i].id)

(* ======================================================================= *)
(* The scan under every order of completion                                *)
(* ======================================================================= *)
(* the list a scan of these dependencies with these answers returns when   *)
(* the queries settle one after the other in the order of the list         *)
ScannedInListOrder ==
  mergeVulnerabilities(ReportedInOrder("osv", osvAnswers),
                       ReportedInOrder("snyk", snykAnswers))

(* C29: whatever the order in which the queries of all batches and both    *)
(* sources complete, scanProject's merged list holds the same records in   *)
(* the same order.                                                         *)
C29_ScheduleIndependent ==
  ScanDone => scanned[1] = ScannedInListOrder

(* a later dependency's Snyk query completed before an earlier one's OSV   *)
(* query, both reported, and the scan returned their records               *)
C29_Witness ==
  /\ ScanDone
  /\ \E m, n \in 1..Len(completed) :
       /\ m < n
       /\ completed[m].source = "snyk" /\ completed[n].source = "osv"
       /\ completed[m].position > completed[n].position
       /\ completed[m].vulnerabilities # <<>> /\ completed[n].vulnerabilities # <<>>
  /\ Len(scanned[1]) >= 2

(* every query settles once, and each slot holds its own query's answer    *)
EveryQueryCompletesOnce ==
  ScanDone =>
    /\ Len(completed) = 2 * Len(allDependencies)
    /\ \A m, n \in 1..Len(completed) :
         (completed[m].source = completed[n].source
            /\ completed[m].position = completed[n].position) => m = n

(* ======================================================================= *)
(* mergeVulnerabilities keeps every key                                    *)
(* ======================================================================= *)
InputRecords == Range(osvVulns) \cup Range(snykVulns)

(* two input records of one package with different ids and one cveId       *)
SameCveDifferentIds(a, b) ==
  /\ a.packageName = b.packageName
  /\ a.id # b.id
  /\ a.cveId # None
  /\ a.cveId = b.cveId

(* C30: the (packageName, id) keys of the list mergeVulnerabilities        *)
(* returns are those of the OSV list together with those of the Snyk list, *)
(* and two records whose ids differ stay two records even when their cveId *)
(* is the same.                                                            *)
C30_NoVulnerabilityLost ==
  MergeReturned =>
    /\ KeyPairs(merged[1]) = KeyPairs(osvVulns) \cup KeyPairs(snykVulns)
    /\ \A a, b \in InputRecords :
         SameCveDifferentIds(a, b) =>
           \E m, n \in 1..Len(merged[1]) :
             /\ m # n
             /\ KeyPair(merged[1][m]) = KeyPair(a)
             /\ KeyPair(merged[1][n]) = KeyPair(b)

(* an OSV record and a Snyk record with different ids and the same cveId,  *)
(* both returned                                                           *)
C30_Witness ==
  /\ MergeReturned
  /\ \E i \in 1..Len(osvVulns) : \E j \in 1..Len(snykVulns) :
       /\ SameCveDifferentIds(osvVulns[i], snykVulns[j])
       /\ KeyPair(snykVulns[j]) \notin KeyPairs(osvVulns)
       /\ KeyPair(osvVulns[i]) \notin KeyPairs(snykVulns)
  /\ Len(merged[1]) = 2

====
